---- MODULE Spec2Model ----
(***************************************************************************)
(* Model of the lazy-meet backend recording pipeline: the upload handler,  *)
(* the detached background processor, and the get / list / delete          *)
(* handlers of the recordings router, over a recording store and a blob    *)
(* store; and of the mobile client's record screen over its on-device      *)
(* storage.                                                                *)
(*                                                                         *)
(* JavaScript runs each handler to its next await without interruption,    *)
(* so every action below is one such segment: the resolution of the        *)
(* pending awaited call (its effect on the store, or its failure) followed *)
(* by the synchronous code up to the next await.  A task's pc names the    *)
(* call it is awaiting.                                                    *)
(***************************************************************************)
EXTENDS Integers, Sequences, FiniteSets, TLC

VARIABLES
    rows,      \* recording store: id -> row
    blobs,     \* blob store: key -> the upload request whose bytes it holds
    clock,     \* latest timestamp handed out (Date.now(), CURRENT_TIMESTAMP)
    nextId,    \* next fresh recording id
    up,        \* upload requests: request number -> handler state
    proc,      \* background processors: recording id -> task state
    del,       \* delete requests: request number -> handler state
    lastRead,  \* the latest response of GET /recordings and GET /recordings/:id
    local,     \* the device's AsyncStorage item '@recordings'
    stop,      \* stopRecording calls of the record screen: number -> state
    call,      \* storage calls made directly: number -> state
    sync,      \* requests of POST /transcribe-and-summarize: number -> state
    auth,      \* the client auth store: user, token, isLoading, isAuthenticated
    keys,      \* the device's AsyncStorage items '@auth_token' and '@auth_user'
    act,       \* calls of the auth store's async actions: number -> state
    isProcessing,  \* the record screen's isProcessing state
    send       \* attempts of sendToServer, one per detail modal: number -> state

backend == <<rows, blobs, clock, nextId, up, proc, del, lastRead>>

vars ==
    <<rows, blobs, clock, nextId, up, proc, del, lastRead, local,
      stop, call, sync, auth, keys, act, isProcessing, send>>

----------------------------------------------------------------------------
(* Bounds of the model *)

MaxUploads == 2
MaxDeletes == 1
MaxTime == 1
MaxTextLen == 4
MaxFlows == 2
MaxCalls == 3
MaxSync == 2
MaxListLen == 3
MaxActs == 2
MaxSends == 1

(* Program constants *)

TitleMaxLen == 100
ClientTitleMaxLen == 50

----------------------------------------------------------------------------
(* Inputs *)

Users == {"A", "B"}

UploadIds == 1..MaxUploads
RecIds == 1..MaxUploads
DeleteIds == 1..MaxDeletes
\* ids a client may put in the path: every id the store can hand out and one
\* it never hands out
ParamIds == 1..(MaxUploads + 1)

NoId == 0

\* The recordings stopped on the device
FlowIds == 1..MaxFlows

\* The calls of saveRecording, updateRecording and deleteRecording
CallIds == 1..MaxCalls

\* The requests of POST /transcribe-and-summarize
SyncIds == 1..MaxSync

\* The calls of loadToken, login, signup and logout
ActIds == 1..MaxActs

\* The detail modals opened, each with one press of its send button
SendIds == 1..MaxSends

\* The accounts a login or signup may be answered for
Accounts == {1, 2}

\* path.extname(req.file.originalname) of the uploads the client makes, which
\* names the audio part 'recording.m4a'
Extnames == {".m4a"}

\* req.body.duration as the client sends it: the field is absent
DurationFields == {""}

----------------------------------------------------------------------------
(* Text, as sequences of characters *)

PlaceholderTitle == <<"P","r","o","c","e","s","s","i","n","g",".",".",".">>
UntitledRecording ==
    <<"U","n","t","i","t","l","e","d"," ","R","e","c","o","r","d","i","n","g">>
EmptyText == <<>>
HelloText ==
    <<"H","e","l","l","o"," ","t","h","e","r","e","."," ",
      "T","h","i","s"," ","i","s"," ","a"," ","t","e","s","t",".">>
SummaryText == <<"s","u","m">>

\* transcription.text as the service returns it; Undefined stands for a
\* response object without a text field
Undefined == <<"undefined">>
Texts == {HelloText, EmptyText}
TranscriptionResults == Texts \cup {Undefined}

\* completion.choices[0].message.content: null or a string
NullContent == <<"null">>
Contents == {SummaryText, NullContent}

SetMin(S) == CHOOSE x \in S : \A y \in S : x <= y
SetMax(S) == CHOOSE x \in S : \A y \in S : x >= y

Terminators == {".", "!", "?"}
Whitespace == {" ", "\n", "\t"}

\* s.split(/[.!?]/)[0]
FirstSentence(s) ==
    LET cut == {i \in 1..Len(s) : s[i] \in Terminators}
    IN  IF cut = {} THEN s ELSE SubSeq(s, 1, SetMin(cut) - 1)

\* s.trim()
Trim(s) ==
    LET keep == {i \in 1..Len(s) : s[i] \notin Whitespace}
    IN  IF keep = {} THEN <<>> ELSE SubSeq(s, SetMin(keep), SetMax(keep))

\* s.substring(0, n)
Substring0(s, n) == IF Len(s) <= n THEN s ELSE SubSeq(s, 1, n)

\* transcribedText.split(/[.!?]/)[0].trim().substring(0, 100) || 'Untitled Recording'
DeriveTitleNoFallback(text) == Substring0(Trim(FirstSentence(text)), TitleMaxLen)

DeriveTitle(text) ==
    LET t == Substring0(Trim(FirstSentence(text)), TitleMaxLen)
    IN  IF t = <<>> THEN UntitledRecording ELSE t

\* completion.choices[0].message.content || ''
SummaryOf(content) == IF content = NullContent THEN EmptyText ELSE content

\* parseInt(req.body.duration || '0')
ParseDuration(field) == IF field = "7" THEN 7 ELSE 0

\* path.extname(req.file.originalname) || '.m4a'
FileExtension(extname) == IF extname = "" THEN ".m4a" ELSE extname

\* `${timestamp}${fileExtension}`
FileName(timestamp, extname) == <<timestamp, FileExtension(extname)>>

----------------------------------------------------------------------------
(* Records *)

Statuses == {"uploaded", "processing", "processed", "failed"}

\* The value the store gives summary and transcription when the create call
\* names neither: the empty string
ColumnDefault == EmptyText

\* prisma.recording.create({data: {userId, title: 'Processing...', audioUrl,
\* duration, status: 'uploaded'}})
NewRowProcessing(id, userId, fileName, duration, createdAt) ==
    [id |-> id, userId |-> userId, title |-> PlaceholderTitle,
     summary |-> ColumnDefault, transcription |-> ColumnDefault,
     audioUrl |-> fileName, duration |-> duration,
     status |-> "processing", createdAt |-> createdAt]

NewRowUntitled(id, userId, fileName, duration, createdAt) ==
    [id |-> id, userId |-> userId, title |-> UntitledRecording,
     summary |-> ColumnDefault, transcription |-> ColumnDefault,
     audioUrl |-> fileName, duration |-> duration,
     status |-> "uploaded", createdAt |-> createdAt]

NewRowSameId(id, userId, fileName, duration, createdAt) ==
    [id |-> 1, userId |-> userId, title |-> PlaceholderTitle,
     summary |-> ColumnDefault, transcription |-> ColumnDefault,
     audioUrl |-> fileName, duration |-> duration,
     status |-> "uploaded", createdAt |-> createdAt]

NewRow(id, userId, fileName, duration, createdAt) ==
    [id |-> id, userId |-> userId, title |-> PlaceholderTitle,
     summary |-> ColumnDefault, transcription |-> ColumnDefault,
     audioUrl |-> fileName, duration |-> duration,
     status |-> "uploaded", createdAt |-> createdAt]

\* Responses: an HTTP status code, the error and details strings of an error
\* body, and the recordings a success body carries
NoResp == [code |-> 0, error |-> "", details |-> "", items |-> <<>>]

ErrorResp(code, error, details) ==
    [code |-> code, error |-> error, details |-> details, items |-> <<>>]

OkResp(items) == [code |-> 200, error |-> "", details |-> "", items |-> items]

\* res.status(400).json({ error: 'No audio file provided' })
NoFileRespUnchecked == ErrorResp(500, "Failed to upload audio", "file")

NoFileResp == ErrorResp(400, "No audio file provided", "")

\* res.json({success: true, recording: {id, title, status, audioUrl, duration,
\* createdAt}})
UploadOkResp(row) ==
    OkResp(<<[id |-> row.id, title |-> row.title, status |-> row.status,
              audioUrl |-> row.audioUrl, duration |-> row.duration,
              createdAt |-> row.createdAt]>>)

\* res.status(500).json({error: 'Failed to upload audio', details: error.message})
UploadFailedResp(err) == ErrorResp(500, "Failed to upload audio", err)

\* res.status(404).json({ error: 'Recording not found' })
NotFoundResp == ErrorResp(404, "Recording not found", "")

IdleUpload ==
    [pc |-> "idle", user |-> "A", fileName |-> <<0, "">>, duration |-> 0,
     tempFile |-> FALSE, recordingId |-> NoId, err |-> "", resp |-> NoResp]

\* tc and sc count the transcription and summarization calls the task has
\* issued; err is the step whose error the catch block caught; rejected says
\* that the mark-as-failed update was rejected, which console.error logged
IdleProc ==
    [pc |-> "none", fileName |-> <<0, "">>, audio |-> 0, text |-> Undefined,
     summary |-> EmptyText, tc |-> 0, sc |-> 0, err |-> "", rejected |-> FALSE]

IdleDelete == [pc |-> "idle", user |-> "A", id |-> NoId, resp |-> NoResp]

NoRead ==
    [kind |-> "none", user |-> "A", id |-> NoId, rowOwner |-> "", resp |-> NoResp]

----------------------------------------------------------------------------
(* The mobile client: recordings on the device *)

\* summary: 'Processing...'
PendingSummary == PlaceholderTitle

\* transcription: 'Transcription pending...'
PendingTranscription ==
    <<"T","r","a","n","s","c","r","i","p","t","i","o","n"," ",
      "p","e","n","d","i","n","g",".",".",".">>

RecordingLabel == <<"R","e","c","o","r","d","i","n","g"," ">>
Ellipsis == <<".", ".", ".">>

\* `Recording ${new Date().toLocaleString()}`
LocalTitle == RecordingLabel \o <<"date, time">>

\* `Recording ${new Date().toLocaleDateString()}`
DatedTitle == RecordingLabel \o <<"date">>

\* generateTitle(transcription, maxLength) with the first sentence returned
\* cut, and without the ellipsis
GenerateTitleCut(transcription, maxLength) ==
    IF transcription = Undefined \/ Trim(transcription) = <<>>
    THEN DatedTitle
    ELSE Substring0(Trim(FirstSentence(transcription)), maxLength)

\* generateTitle(transcription, maxLength)
GenerateTitleMax(transcription, maxLength) ==
    IF transcription = Undefined \/ Trim(transcription) = <<>>
    THEN DatedTitle
    ELSE LET firstSentence == Trim(FirstSentence(transcription))
         IN  IF Len(firstSentence) > 0 /\ Len(firstSentence) <= maxLength
             THEN firstSentence
             ELSE Trim(Substring0(transcription, maxLength)) \o Ellipsis

\* generateTitle(transcription), maxLength = 50
GenerateTitle(transcription) == GenerateTitleMax(transcription, ClientTitleMaxLen)

\* audioRecorder.uri after stop(): the path of the file of recording f, an
\* object carrying it as url, nothing, or an object without url
UriKinds == {"string", "object", "none", "invalid"}
FileUri(f) == <<f, "file">>

\* recordingTime when the recording is stopped, in seconds
RecordingTimes == {3}

\* newRecording of saveRecordingLocally; Date.now() of recording f is f
NewRecording(id, audioPath, duration) ==
    [id |-> id, title |-> LocalTitle, summary |-> PendingSummary,
     transcription |-> PendingTranscription, audioUrl |-> audioPath,
     duration |-> duration, createdAt |-> id]

\* The body of the server's answer: {success: true, transcription, summary,
\* audioUrl}, or an error body, which has no success field
NoBody ==
    [success |-> FALSE, transcription |-> Undefined, summary |-> Undefined,
     audioUrl |-> Undefined]
ErrorBody == NoBody
SuccessBody(transcription, summary, audioUrl) ==
    [success |-> TRUE, transcription |-> transcription, summary |-> summary,
     audioUrl |-> audioUrl]
Bodies ==
    {ErrorBody} \cup
    {SuccessBody(t, c, k) : t \in Texts, c \in {SummaryText},
                            k \in {FileName(0, ".m4a"), Undefined}}

\* {title: generateTitle(data.transcription), summary: data.summary,
\*  transcription: data.transcription, audioUrl: data.audioUrl || uri}
UpdatesOf(data, uri) ==
    [title |-> GenerateTitle(data.transcription), summary |-> data.summary,
     transcription |-> data.transcription,
     audioUrl |-> IF data.audioUrl = Undefined THEN uri ELSE data.audioUrl]

\* { ...recordings[index], ...updates }
Merge(recording, updates) ==
    [recording EXCEPT !.title = updates.title, !.summary = updates.summary,
                      !.transcription = updates.transcription,
                      !.audioUrl = updates.audioUrl]

\* AsyncStorage holds the list as a JSON text, or nothing under the key
NullJson == <<"null">>
Stringify(recordings) == <<"json", recordings>>
Parse(json) == json[2]

\* getRecordings(): the parsed item, [] when there is none, and [] when the
\* read or the parse throws
GetRecordings(ok) == IF ok /\ local # NullJson THEN Parse(local) ELSE <<>>

\* recordings.unshift(recording)
Unshift(recordings, recording) == <<recording>> \o recordings

\* recordings.findIndex(r => r.id === id), counting from 1; 0 for -1
FindLastIndex(recordings, id) ==
    LET found == {i \in 1..Len(recordings) : recordings[i].id = id}
    IN  IF found = {} THEN 0 ELSE SetMax(found)

FindIndex(recordings, id) ==
    LET found == {i \in 1..Len(recordings) : recordings[i].id = id}
    IN  IF found = {} THEN 0 ELSE SetMin(found)

\* list is the array the pending storage write carries; saved and sent say
\* that saveRecording has resolved and that the request has been issued
IdleStop ==
    [pc |-> "idle", id |-> NoId, uri |-> <<>>, duration |-> 0, list |-> <<>>,
     data |-> NoBody, saved |-> FALSE, sent |-> FALSE, outcome |-> ""]

\* audioUrl is recording.audioUrl of the modal's loaded recording
IdleSend ==
    [pc |-> "idle", id |-> NoId, audioUrl |-> <<>>, isProcessing |-> FALSE,
     list |-> <<>>, data |-> NoBody, outcome |-> ""]

\* recordings.filter(r => r.id !== id)
Without(recordings, id) == SelectSeq(recordings, LAMBDA r : r.id # id)

\* The updates the screens pass to updateRecording: those of a success body
ServerUpdates(id) ==
    UpdatesOf(SuccessBody(HelloText, SummaryText, FileName(0, ".m4a")), FileUri(id))

\* op is the function called, list the array the pending write carries;
\* readOk says that the read of getRecordings returned the stored item
IdleCall ==
    [pc |-> "idle", op |-> "", id |-> NoId, list |-> <<>>, readOk |-> FALSE,
     outcome |-> ""]

\* path.extname(req.file.originalname) || '.mp3'
SyncFileExtension(extname) == IF extname = "" THEN ".mp3" ELSE extname

\* `${timestamp}${fileExtension}` of POST /transcribe-and-summarize
SyncFileName(timestamp, extname) == <<timestamp, SyncFileExtension(extname)>>

\* res.json({success: true, transcription, summary, audioUrl: fileName})
SyncOkResp(text, summary, fileName) ==
    OkResp(<<[transcription |-> text, summary |-> summary, audioUrl |-> fileName]>>)

\* res.status(500).json({error: 'Failed to process audio', details})
SyncFailedResp(err) == ErrorResp(500, "Failed to process audio", err)

IdleSync ==
    [pc |-> "idle", tempFile |-> FALSE, text |-> Undefined, summary |-> Undefined,
     summarized |-> FALSE, fileName |-> <<0, "">>, err |-> "", resp |-> NoResp]

\* null, and the token and the user of an account
Null == <<"null">>
TokenOf(k) == <<"token", k>>
UserOf(k) == <<"user", k>>

\* user: null, token: null, isLoading: true, isAuthenticated: false
InitialAuth ==
    [user |-> Null, token |-> Null, isLoading |-> TRUE, isAuthenticated |-> FALSE]

\* Nothing is stored under TOKEN_KEY and USER_KEY
NoKeys == [token |-> Null, user |-> Null]

IdleAct == [pc |-> "idle", op |-> "", account |-> 0, outcome |-> ""]

Init ==
    /\ rows = <<>>
    /\ blobs = <<>>
    /\ clock = 0
    /\ nextId = 1
    /\ up = [h \in UploadIds |-> IdleUpload]
    /\ proc = [r \in RecIds |-> IdleProc]
    /\ del = [d \in DeleteIds |-> IdleDelete]
    /\ lastRead = NoRead
    /\ local = NullJson
    /\ stop = [f \in FlowIds |-> IdleStop]
    /\ call = [c \in CallIds |-> IdleCall]
    /\ sync = [q \in SyncIds |-> IdleSync]
    /\ auth = InitialAuth
    /\ keys = NoKeys
    /\ act = [a \in ActIds |-> IdleAct]
    /\ isProcessing = FALSE
    /\ send = [m \in SendIds |-> IdleSend]

\* Date.now() and the store's CURRENT_TIMESTAMP: any time not before the
\* latest one handed out
Timestamps == clock..MaxTime

----------------------------------------------------------------------------
(* Store primitives *)

\* The fields each store call filters by
FindFirstWhereId == {"id"}

\* findFirst({where: {id: req.params.id, userId: req.userId}})
FindFirstWhere == {"id", "userId"}

\* findMany({where: {userId: req.userId}})
FindManyWhereAny == {}

FindManyWhere == {"userId"}

\* update({where: {id: recordingId}, data})
UpdateWhere == {"id"}

\* delete({where: {id: req.params.id}})
DeleteWhere == {"id"}

\* The ids of the rows a where clause over the given fields selects
Matching(where, id, userId) ==
    {r \in DOMAIN rows :
        /\ ("id" \in where) => r = id
        /\ ("userId" \in where) => rows[r].userId = userId}

\* prisma.recording.findFirst: the row, if any
FindFirst(id, userId) ==
    LET m == Matching(FindFirstWhere, id, userId)
    IN  IF m = {} THEN <<>> ELSE <<rows[CHOOSE r \in m : TRUE]>>

\* prisma.recording.update rejects when no row matches
CanUpdate(id) == Matching(UpdateWhere, id, "") # {}

\* prisma.recording.update({where: {id}, data}) applied: the rows with the one
\* of that id replaced
UpdateFirst(id, row) == [rows EXCEPT ![SetMin(DOMAIN rows)] = row]

Update(id, row) == [rows EXCEPT ![id] = row]

\* prisma.recording.delete rejects when no row matches
CanDelete(id) == Matching(DeleteWhere, id, "") # {}

\* data: { status }
WithStatusAndTitle(row, status) ==
    [row EXCEPT !.status = status, !.title = UntitledRecording]

WithStatus(row, status) == [row EXCEPT !.status = status]

\* data: { title, summary, transcription: transcribedText, status: 'processed' }
WithStatusOnly(row, title, summary, text) == [row EXCEPT !.status = "processed"]

WithResults(row, title, summary, text) ==
    [row EXCEPT !.title = title, !.summary = summary, !.transcription = text,
                !.status = "processed"]

Put(f, k, v) == (k :> v) @@ f

\* The store without the row of key k
RemoveEvery(f, k) == [x \in {} |-> f[x]]

Remove(f, k) == [x \in DOMAIN f \ {k} |-> f[x]]

----------------------------------------------------------------------------
(* POST /recordings/upload *)

\* The handler returns after sending resp: its locals are gone, the staged
\* file is as it left it
UploadReturn(h, resp) ==
    [IdleUpload EXCEPT !.pc = "done", !.user = h.user, !.tempFile = h.tempFile,
                       !.resp = resp]

\* An exception leaves the handler: its promise rejects and nothing is sent
UploadReject(h) ==
    [IdleUpload EXCEPT !.pc = "crashed", !.user = h.user, !.tempFile = h.tempFile,
                       !.err = h.err]

\* The catch block up to its await: the staged file is unlinked if it exists;
\* then, with a row created, the compensating update is issued, and otherwise
\* the 500 response is sent.  unlinkSync may throw, and then the handler's
\* promise rejects with nothing sent.
UploadCatchNoCleanup(h, err) ==
    LET u == [h EXCEPT !.err = err]
    IN  {IF u.recordingId # NoId
         THEN [u EXCEPT !.pc = "compensate"]
         ELSE UploadReturn(u, UploadFailedResp(err))}

UploadCatch(h, err) ==
    LET u == [h EXCEPT !.err = err]
        cleaned == [u EXCEPT !.tempFile = FALSE]
        after == IF u.recordingId # NoId
                 THEN [cleaned EXCEPT !.pc = "compensate"]
                 ELSE UploadReturn(cleaned, UploadFailedResp(err))
    IN  IF u.tempFile
        THEN {after, UploadReject(u)}
        ELSE {after}

\* Lines 113-127 on the success path: the staged file is gone and the
\* confirmation is sent
UploadAwaitProcessor(h, row) ==
    [h EXCEPT !.recordingId = row.id, !.tempFile = FALSE, !.pc = "awaitProcessor"]

\* The confirmation followed by a throw into the catch block
UploadConfirmThenCatch(h, row) ==
    [h EXCEPT !.recordingId = row.id, !.tempFile = FALSE, !.err = "dispatch",
              !.pc = "compensate", !.resp = UploadOkResp(row)]

UploadConfirm(h, row) ==
    UploadReturn([h EXCEPT !.tempFile = FALSE], UploadOkResp(row))

\* processRecordingInBackground(recording.id, fileName) up to its first await
Dispatch(fileName) == [IdleProc EXCEPT !.pc = "markProcessing", !.fileName = fileName]

\* The request arrives, authenticated as user; multer has staged the audio
\* part, if there is one, in a temporary file.  Up to `await s3Client.send`.
UploadStart(h, user, hasFile, extname, durationField, timestamp) ==
    /\ up[h].pc = "idle"
    /\ IF h = 1 THEN TRUE ELSE up[h - 1].pc # "idle"
    /\ IF ~hasFile
       THEN /\ up' = [up EXCEPT ![h] =
                        UploadReturn([@ EXCEPT !.user = user], NoFileResp)]
            /\ clock' = clock
       ELSE /\ up' = [up EXCEPT ![h] =
                        [@ EXCEPT !.pc = "s3", !.user = user, !.tempFile = TRUE,
                                  !.duration = ParseDuration(durationField),
                                  !.fileName = FileName(timestamp, extname)]]
            /\ clock' = timestamp
    /\ UNCHANGED <<rows, blobs, nextId, proc, del, lastRead, local, stop, call,
                   sync, auth, keys, act, isProcessing, send>>

\* After `await s3Client.send(uploadCommand)`: the row creation is issued, or
\* the rejection is caught
UploadAfterPutUnchecked(h, ok) == {[h EXCEPT !.pc = "create"]}

UploadAfterPut(h, ok) ==
    IF ok THEN {[h EXCEPT !.pc = "create"]} ELSE UploadCatch(h, "s3")

\* `await s3Client.send(uploadCommand)` resolves or rejects; up to
\* `await prisma.recording.create`
UploadBlobDone(h, ok) ==
    /\ up[h].pc = "s3"
    /\ blobs' = IF ok THEN Put(blobs, up[h].fileName, h) ELSE blobs
    /\ \E n \in UploadAfterPut(up[h], ok) : up' = [up EXCEPT ![h] = n]
    /\ UNCHANGED <<rows, clock, nextId, proc, del, lastRead, local, stop, call,
                   sync, auth, keys, act, isProcessing, send>>

\* `await prisma.recording.create` resolves or rejects; then the temp file is
\* unlinked, the confirmation sent and the processor started, or the catch
\* block runs
UploadCreateDone(h, ok, createdAt, unlinkOk) ==
    /\ up[h].pc = "create"
    /\ IF ok
       THEN LET row == NewRow(nextId, up[h].user, up[h].fileName,
                              up[h].duration, createdAt)
                made == [up[h] EXCEPT !.recordingId = row.id]
            IN  /\ rows' = Put(rows, row.id, row)
                /\ nextId' = nextId + 1
                /\ clock' = createdAt
                /\ IF unlinkOk
                   THEN /\ up' = [up EXCEPT ![h] = UploadConfirm(up[h], row)]
                        /\ proc' = [proc EXCEPT ![row.id] = Dispatch(up[h].fileName)]
                   ELSE /\ \E n \in UploadCatch(made, "unlink") :
                                up' = [up EXCEPT ![h] = n]
                        /\ proc' = proc
       ELSE /\ \E n \in UploadCatch(up[h], "create") : up' = [up EXCEPT ![h] = n]
            /\ UNCHANGED <<rows, nextId, clock, proc, local, stop, call, sync,
                           auth, keys, act, isProcessing, send>>
    /\ UNCHANGED <<blobs, del, lastRead, local, stop, call, sync, auth, keys,
                   act, isProcessing, send>>

\* The compensating `prisma.recording.update({status: 'failed'})` resolves, or
\* rejects into console.error; then the 500 response is sent
UploadCompensateDone(h, ok) ==
    /\ up[h].pc = "compensate"
    /\ rows' = IF ok /\ CanUpdate(up[h].recordingId)
               THEN Update(up[h].recordingId,
                           WithStatus(rows[up[h].recordingId], "failed"))
               ELSE rows
    /\ up' = [up EXCEPT ![h] = UploadReturn(@, UploadFailedResp(up[h].err))]
    /\ UNCHANGED <<blobs, clock, nextId, proc, del, lastRead, local, stop,
                   call, sync, auth, keys, act, isProcessing, send>>

----------------------------------------------------------------------------
(* processRecordingInBackground *)

\* The task ends: its locals are gone
ProcReturn(p) ==
    [IdleProc EXCEPT !.pc = "done", !.tc = p.tc, !.sc = p.sc, !.err = p.err,
                     !.rejected = p.rejected]

\* A throw at a step of the try block: the catch block logs it and issues the
\* mark-as-failed update
ProcThrowIgnored(p, step) == ProcReturn([p EXCEPT !.err = step])

ProcRetry(p, step) == [p EXCEPT !.pc = "markProcessing", !.err = step]

ProcThrow(p, step) ==
    [IdleProc EXCEPT !.pc = "markFailed", !.tc = p.tc, !.sc = p.sc, !.err = step]

\* What the processor goes on to when its first update has been rejected
ProcContinueUnmarked(p) == [p EXCEPT !.pc = "signUrl"]

ProcUnmarked(p) == ProcThrow(p, "markProcessing")

\* `.catch(console.error)` on the mark-as-failed update: its rejection is
\* logged and the task returns
ProcUncaught(p) == [ProcReturn(p) EXCEPT !.pc = "rejected", !.rejected = TRUE]

ProcLogged(p) == ProcReturn([p EXCEPT !.rejected = TRUE])

\* `await prisma.recording.update({status: 'processing'})`
ProcMarkProcessing(r, ok) ==
    /\ proc[r].pc = "markProcessing"
    /\ IF ok /\ CanUpdate(r)
       THEN /\ rows' = Update(r, WithStatus(rows[r], "processing"))
            /\ proc' = [proc EXCEPT ![r] = [@ EXCEPT !.pc = "signUrl"]]
       ELSE /\ rows' = rows
            /\ proc' = [proc EXCEPT ![r] = ProcUnmarked(@)]
    /\ UNCHANGED <<blobs, clock, nextId, up, del, lastRead, local, stop, call,
                   sync, auth, keys, act, isProcessing, send>>

\* `await getSignedUrl(...)`, then fetch(presignedUrl) is issued
ProcSignUrl(r, ok) ==
    /\ proc[r].pc = "signUrl"
    /\ proc' = [proc EXCEPT ![r] =
                  IF ok THEN [@ EXCEPT !.pc = "fetch"] ELSE ProcThrow(@, "signUrl")]
    /\ UNCHANGED <<rows, blobs, clock, nextId, up, del, lastRead, local, stop,
                   call, sync, auth, keys, act, isProcessing, send>>

\* `await fetch(presignedUrl).then(r => r.blob())`, then the transcription
\* call is issued with the bytes stored under the key
ProcFetch(r, ok) ==
    /\ proc[r].pc = "fetch"
    /\ proc' = [proc EXCEPT ![r] =
                  IF ok /\ proc[r].fileName \in DOMAIN blobs
                  THEN [@ EXCEPT !.pc = "transcribe", !.tc = @ + 1,
                                 !.audio = blobs[proc[r].fileName]]
                  ELSE ProcThrow(@, "fetch")]
    /\ UNCHANGED <<rows, blobs, clock, nextId, up, del, lastRead, local, stop,
                   call, sync, auth, keys, act, isProcessing, send>>

\* `await openai.audio.transcriptions.create(...)`, then the summarization
\* call is issued
ProcTranscribe(r, ok, text) ==
    /\ proc[r].pc = "transcribe"
    /\ proc' = [proc EXCEPT ![r] =
                  IF ok
                  THEN [@ EXCEPT !.pc = "summarize", !.text = text, !.sc = @ + 1]
                  ELSE ProcThrow(@, "transcribe")]
    /\ UNCHANGED <<rows, blobs, clock, nextId, up, del, lastRead, local, stop,
                   call, sync, auth, keys, act, isProcessing, send>>

\* `await openai.chat.completions.create(...)`, then the summary and the title
\* are computed (split throws on a missing text) and the final update is issued
ProcSummarize(r, ok, content) ==
    /\ proc[r].pc = "summarize"
    /\ proc' = [proc EXCEPT ![r] =
                  IF ~ok THEN ProcThrow(@, "summarize")
                  ELSE IF proc[r].text = Undefined THEN ProcThrow(@, "title")
                  ELSE [@ EXCEPT !.pc = "finalUpdate", !.summary = SummaryOf(content)]]
    /\ UNCHANGED <<rows, blobs, clock, nextId, up, del, lastRead, local, stop,
                   call, sync, auth, keys, act, isProcessing, send>>

\* `await prisma.recording.update({title, summary, transcription, status:
\* 'processed'})`
ProcFinalUpdate(r, ok) ==
    /\ proc[r].pc = "finalUpdate"
    /\ IF ok /\ CanUpdate(r)
       THEN /\ rows' = Update(r, WithResults(rows[r], DeriveTitle(proc[r].text),
                                              proc[r].summary, proc[r].text))
            /\ proc' = [proc EXCEPT ![r] = ProcReturn(@)]
       ELSE /\ rows' = rows
            /\ proc' = [proc EXCEPT ![r] = ProcThrow(@, "finalUpdate")]
    /\ UNCHANGED <<blobs, clock, nextId, up, del, lastRead, local, stop, call,
                   sync, auth, keys, act, isProcessing, send>>

\* The catch block's `await prisma.recording.update({status: 'failed'})
\* .catch(console.error)`
ProcMarkFailed(r, ok) ==
    /\ proc[r].pc = "markFailed"
    /\ IF ok /\ CanUpdate(r)
       THEN /\ rows' = Update(r, WithStatus(rows[r], "failed"))
            /\ proc' = [proc EXCEPT ![r] = ProcReturn(@)]
       ELSE /\ rows' = rows
            /\ proc' = [proc EXCEPT ![r] = ProcLogged(@)]
    /\ UNCHANGED <<blobs, clock, nextId, up, del, lastRead, local, stop, call,
                   sync, auth, keys, act, isProcessing, send>>

----------------------------------------------------------------------------
(* GET /recordings, GET /recordings/:id, DELETE /recordings/:id *)

\* select: { id, title, summary, audioUrl, duration, createdAt }
ListItem(row) ==
    [id |-> row.id, title |-> row.title, summary |-> row.summary,
     audioUrl |-> row.audioUrl, duration |-> row.duration,
     createdAt |-> row.createdAt]

\* prisma.recording.findMany: the ids of the rows selected
FindManyIds(userId) == Matching(FindManyWhere, NoId, userId)

\* orderBy: { createdAt: 'desc' }: the orders of ids the store may return,
\* rows of equal createdAt in either order
DescOrders(ids) ==
    {o \in [1..Cardinality(ids) -> ids] :
        /\ \A i, j \in DOMAIN o : i # j => o[i] # o[j]
        /\ \A i, j \in DOMAIN o :
              i < j => rows[o[i]].createdAt >= rows[o[j]].createdAt}

\* router.get('/')
ListResp(order) == OkResp([i \in DOMAIN order |-> ListItem(rows[order[i]])])

ListFailedResp == ErrorResp(500, "Failed to fetch recordings", "store")

GetList(user, ok) ==
    /\ \E order \in DescOrders(FindManyIds(user)) :
          lastRead' = [kind |-> "list", user |-> user, id |-> NoId, rowOwner |-> "",
                       resp |-> IF ok THEN ListResp(order) ELSE ListFailedResp]
    /\ UNCHANGED <<rows, blobs, clock, nextId, up, proc, del, local, stop,
                   call, sync, auth, keys, act, isProcessing, send>>

\* router.get('/:id')
GetOneResp(user, id, ok) ==
    IF ~ok THEN ErrorResp(500, "Failed to fetch recording", "store")
    ELSE IF FindFirst(id, user) = <<>> THEN NotFoundResp
    ELSE OkResp(FindFirst(id, user))

OwnerOf(id) == IF id \in DOMAIN rows THEN rows[id].userId ELSE ""

GetOne(user, id, ok) ==
    /\ lastRead' = [kind |-> "get", user |-> user, id |-> id,
                    rowOwner |-> OwnerOf(id), resp |-> GetOneResp(user, id, ok)]
    /\ UNCHANGED <<rows, blobs, clock, nextId, up, proc, del, local, stop,
                   call, sync, auth, keys, act, isProcessing, send>>

\* router.delete('/:id'): the request arrives, up to `await findFirst`
DeleteStart(d, user, id) ==
    /\ del[d].pc = "idle"
    /\ IF d = 1 THEN TRUE ELSE del[d - 1].pc # "idle"
    /\ del' = [del EXCEPT ![d] = [@ EXCEPT !.pc = "find", !.user = user, !.id = id]]
    /\ UNCHANGED <<rows, blobs, clock, nextId, up, proc, lastRead, local, stop,
                   call, sync, auth, keys, act, isProcessing, send>>

DeleteFailedResp == ErrorResp(500, "Failed to delete recording", "store")

\* The handler returns after sending resp
DeleteReturn(resp) == [IdleDelete EXCEPT !.pc = "done", !.resp = resp]

DeletedResp == [OkResp(<<>>) EXCEPT !.details = "Recording deleted"]

\* `await prisma.recording.findFirst({where: {id, userId}})`, then 404 or the
\* delete is issued
DeleteFind(d, ok) ==
    /\ del[d].pc = "find"
    /\ del' = [del EXCEPT ![d] =
                 IF ~ok THEN DeleteReturn(DeleteFailedResp)
                 ELSE IF FindFirst(del[d].id, del[d].user) = <<>>
                 THEN DeleteReturn(NotFoundResp)
                 ELSE [@ EXCEPT !.pc = "delete"]]
    /\ UNCHANGED <<rows, blobs, clock, nextId, up, proc, lastRead, local, stop,
                   call, sync, auth, keys, act, isProcessing, send>>

\* A delete that removes the blob of the row with it
DeleteCommitWithBlob(d, ok) ==
    /\ del[d].pc = "delete"
    /\ IF ok /\ CanDelete(del[d].id)
       THEN /\ rows' = Remove(rows, del[d].id)
            /\ blobs' = Remove(blobs, rows[del[d].id].audioUrl)
            /\ del' = [del EXCEPT ![d] = DeleteReturn(DeletedResp)]
       ELSE /\ rows' = rows
            /\ blobs' = blobs
            /\ del' = [del EXCEPT ![d] = DeleteReturn(DeleteFailedResp)]
    /\ UNCHANGED <<clock, nextId, up, proc, lastRead, local, stop, call, sync,
                   auth, keys, act, isProcessing, send>>

\* `await prisma.recording.delete({where: {id}})`, which rejects when no row
\* has the id
DeleteCommit(d, ok) ==
    /\ del[d].pc = "delete"
    /\ IF ok /\ CanDelete(del[d].id)
       THEN /\ rows' = Remove(rows, del[d].id)
            /\ del' = [del EXCEPT ![d] = DeleteReturn(DeletedResp)]
       ELSE /\ rows' = rows
            /\ del' = [del EXCEPT ![d] = DeleteReturn(DeleteFailedResp)]
    /\ UNCHANGED <<blobs, clock, nextId, up, proc, lastRead, local, stop, call,
                   sync, auth, keys, act, isProcessing, send>>

----------------------------------------------------------------------------

Upload ==
    \/ \E h \in UploadIds, user \in Users, hasFile \in BOOLEAN,
          extname \in Extnames, field \in DurationFields, t \in Timestamps :
          UploadStart(h, user, hasFile, extname, field, t)
    \/ \E h \in UploadIds, ok \in BOOLEAN : UploadBlobDone(h, ok)
    \/ \E h \in UploadIds, ok \in BOOLEAN, unlinkOk \in BOOLEAN :
          UploadCreateDone(h, ok, clock, unlinkOk)
    \/ \E h \in UploadIds, ok \in BOOLEAN : UploadCompensateDone(h, ok)

Process ==
    \/ \E r \in RecIds, ok \in BOOLEAN : ProcMarkProcessing(r, ok)
    \/ \E r \in RecIds, ok \in BOOLEAN : ProcSignUrl(r, ok)
    \/ \E r \in RecIds, ok \in BOOLEAN : ProcFetch(r, ok)
    \/ \E r \in RecIds, ok \in BOOLEAN, text \in TranscriptionResults :
          ProcTranscribe(r, ok, text)
    \/ \E r \in RecIds, ok \in BOOLEAN, content \in Contents :
          ProcSummarize(r, ok, content)
    \/ \E r \in RecIds, ok \in BOOLEAN : ProcFinalUpdate(r, ok)
    \/ \E r \in RecIds, ok \in BOOLEAN : ProcMarkFailed(r, ok)

Delete ==
    \/ \E d \in DeleteIds, user \in Users, id \in ParamIds : DeleteStart(d, user, id)
    \/ \E d \in DeleteIds, ok \in BOOLEAN : DeleteFind(d, ok)
    \/ \E d \in DeleteIds, ok \in BOOLEAN : DeleteCommit(d, ok)

\* The pipeline and its deleting clients
Next == Upload \/ Process \/ Delete

Spec == Init /\ [][Next]_vars

\* The pipeline followed up to a read: lastRead is the response to a request
\* served in the state it is seen with
NextReads ==
    \/ \E h \in UploadIds, user \in Users, hasFile \in BOOLEAN,
          extname \in Extnames, field \in DurationFields, t \in Timestamps :
          lastRead = NoRead /\ UploadStart(h, user, hasFile, extname, field, t)
    \/ \E h \in UploadIds, ok \in BOOLEAN :
          lastRead = NoRead /\ UploadBlobDone(h, ok)
    \/ \E h \in UploadIds, ok \in BOOLEAN, unlinkOk \in BOOLEAN :
          lastRead = NoRead /\ UploadCreateDone(h, ok, clock, unlinkOk)
    \/ \E h \in UploadIds, ok \in BOOLEAN :
          lastRead = NoRead /\ UploadCompensateDone(h, ok)
    \/ \E r \in RecIds, ok \in BOOLEAN :
          lastRead = NoRead /\ ProcMarkProcessing(r, ok)
    \/ \E r \in RecIds, ok \in BOOLEAN : lastRead = NoRead /\ ProcSignUrl(r, ok)
    \/ \E r \in RecIds, ok \in BOOLEAN : lastRead = NoRead /\ ProcFetch(r, ok)
    \/ \E r \in RecIds, ok \in BOOLEAN, text \in TranscriptionResults :
          lastRead = NoRead /\ ProcTranscribe(r, ok, text)
    \/ \E r \in RecIds, ok \in BOOLEAN, content \in Contents :
          lastRead = NoRead /\ ProcSummarize(r, ok, content)
    \/ \E r \in RecIds, ok \in BOOLEAN :
          lastRead = NoRead /\ ProcFinalUpdate(r, ok)
    \/ \E r \in RecIds, ok \in BOOLEAN : lastRead = NoRead /\ ProcMarkFailed(r, ok)
    \/ \E user \in Users, ok \in BOOLEAN : lastRead = NoRead /\ GetList(user, ok)
    \/ \E user \in Users, id \in ParamIds, ok \in BOOLEAN :
          lastRead = NoRead /\ GetOne(user, id, ok)

SpecReads == Init /\ [][NextReads]_vars

----------------------------------------------------------------------------
(* The record screen: stopRecording, saveRecordingLocally, processRecording *)

\* setIsProcessing(false) only at the end of the try block
ProcessingAfterTry(outcome) == outcome \notin {"updated", "noEntry", "processed"}

\* finally { setIsProcessing(false) }
ProcessingAfter(outcome) == FALSE

StopReturn(s, outcome) ==
    [IdleStop EXCEPT !.pc = "done", !.id = s.id, !.saved = s.saved,
                     !.sent = s.sent, !.outcome = outcome]

\* stopRecording up to `await audioRecorder.stop()`; the screen has one
\* recorder, and shows its button only while isProcessing is false
StopStart(f, isRecording) ==
    /\ stop[f].pc = "idle"
    /\ ~isProcessing
    /\ \A g \in FlowIds : stop[g].pc # "stop"
    /\ stop' = [stop EXCEPT ![f] =
                  IF isRecording THEN [@ EXCEPT !.pc = "stop"]
                  ELSE StopReturn(@, "notRecording")]
    /\ UNCHANGED <<backend, local, call, sync, auth, keys, act, isProcessing,
                   send>>

\* stop() returns; with a uri, saveRecordingLocally builds the recording and
\* saveRecording awaits the read of getRecordings
StopDone(f, ok, kind, duration) ==
    /\ stop[f].pc = "stop"
    /\ stop' = [stop EXCEPT ![f] =
                  IF ~ok THEN StopReturn(@, "stopFailed")
                  ELSE IF kind = "none" THEN StopReturn(@, "noUri")
                  ELSE IF kind = "invalid" THEN StopReturn(@, "invalidUri")
                  ELSE [@ EXCEPT !.pc = "saveGet", !.id = f, !.uri = FileUri(f),
                                 !.duration = duration]]
    /\ UNCHANGED <<backend, local, call, sync, auth, keys, act, isProcessing,
                   send>>

\* saveRecording: the read returns, unshift, `await AsyncStorage.setItem`
SaveGet(f, ok) ==
    /\ stop[f].pc = "saveGet"
    /\ stop' = [stop EXCEPT ![f] =
                  [@ EXCEPT !.pc = "saveSet",
                            !.list = Unshift(GetRecordings(ok),
                                             NewRecording(stop[f].id, stop[f].uri,
                                                          stop[f].duration))]]
    /\ UNCHANGED <<backend, local, call, sync, auth, keys, act, isProcessing,
                   send>>

\* The write returns; saveRecordingLocally goes on to read the list back. A
\* failed write is rethrown up to the catch block of stopRecording
SaveSet(f, ok) ==
    /\ stop[f].pc = "saveSet"
    /\ IF ok
       THEN /\ local' = Stringify(stop[f].list)
            /\ stop' = [stop EXCEPT ![f] =
                          [@ EXCEPT !.pc = "verifyGet", !.list = <<>>,
                                    !.saved = TRUE]]
       ELSE /\ local' = local
            /\ stop' = [stop EXCEPT ![f] = StopReturn(@, "saveFailed")]
    /\ UNCHANGED <<backend, call, sync, auth, keys, act, isProcessing, send>>

\* The read-back returns, its length is logged; stopRecording calls
\* processRecording, which sets isProcessing and issues the request
VerifyGet(f) ==
    /\ stop[f].pc = "verifyGet"
    /\ stop' = [stop EXCEPT ![f] = [@ EXCEPT !.pc = "fetch", !.sent = TRUE]]
    /\ isProcessing' = TRUE
    /\ UNCHANGED <<backend, local, call, sync, auth, keys, act, send>>

\* `await fetch(...)`
FetchDone(f, ok) ==
    /\ stop[f].pc = "fetch"
    /\ stop' = [stop EXCEPT ![f] =
                  IF ok THEN [@ EXCEPT !.pc = "json"]
                  ELSE StopReturn(@, "requestFailed")]
    /\ isProcessing' = IF stop'[f].pc = "done" THEN ProcessingAfter(stop'[f].outcome)
                       ELSE isProcessing
    /\ UNCHANGED <<backend, local, call, sync, auth, keys, act, send>>

\* `await response.json()`; a success body starts updateRecording, which
\* awaits the read of getRecordings
JsonDone(f, ok, data) ==
    /\ stop[f].pc = "json"
    /\ stop' = [stop EXCEPT ![f] =
                  IF ~ok THEN StopReturn(@, "requestFailed")
                  ELSE IF ~data.success THEN StopReturn(@, "nonSuccess")
                  ELSE [@ EXCEPT !.pc = "updateGet", !.data = data]]
    /\ isProcessing' = IF stop'[f].pc = "done" THEN ProcessingAfter(stop'[f].outcome)
                       ELSE isProcessing
    /\ UNCHANGED <<backend, local, call, sync, auth, keys, act, send>>

\* updateRecording: the read returns; with an entry of the id, the merged
\* list is written
UpdateGet(f, ok) ==
    /\ stop[f].pc = "updateGet"
    /\ LET recordings == GetRecordings(ok)
           index == FindIndex(recordings, stop[f].id)
       IN  stop' = [stop EXCEPT ![f] =
                      IF index = 0 THEN StopReturn(@, "noEntry")
                      ELSE [@ EXCEPT !.pc = "updateSet", !.data = NoBody,
                                     !.list = [recordings EXCEPT ![index] =
                                                 Merge(@, UpdatesOf(stop[f].data,
                                                                    stop[f].uri))]]]
    /\ isProcessing' = IF stop'[f].pc = "done" THEN ProcessingAfter(stop'[f].outcome)
                       ELSE isProcessing
    /\ UNCHANGED <<backend, local, call, sync, auth, keys, act, send>>

UpdateSet(f, ok) ==
    /\ stop[f].pc = "updateSet"
    /\ IF ok
       THEN /\ local' = Stringify(stop[f].list)
            /\ stop' = [stop EXCEPT ![f] = StopReturn(@, "updated")]
       ELSE /\ local' = local
            /\ stop' = [stop EXCEPT ![f] = StopReturn(@, "updateFailed")]
    /\ isProcessing' = IF stop'[f].pc = "done" THEN ProcessingAfter(stop'[f].outcome)
                       ELSE isProcessing
    /\ UNCHANGED <<backend, call, sync, auth, keys, act, send>>

NextClient ==
    \/ \E f \in FlowIds, isRecording \in BOOLEAN : StopStart(f, isRecording)
    \/ \E f \in FlowIds, ok \in BOOLEAN, kind \in UriKinds,
          duration \in RecordingTimes : StopDone(f, ok, kind, duration)
    \/ \E f \in FlowIds, ok \in BOOLEAN : SaveGet(f, ok)
    \/ \E f \in FlowIds, ok \in BOOLEAN : SaveSet(f, ok)
    \/ \E f \in FlowIds : VerifyGet(f)
    \/ \E f \in FlowIds, ok \in BOOLEAN : FetchDone(f, ok)
    \/ \E f \in FlowIds, ok \in BOOLEAN, data \in Bodies : JsonDone(f, ok, data)
    \/ \E f \in FlowIds, ok \in BOOLEAN : UpdateGet(f, ok)
    \/ \E f \in FlowIds, ok \in BOOLEAN : UpdateSet(f, ok)

SpecClient == Init /\ [][NextClient]_vars

----------------------------------------------------------------------------
(* The detail modal: sendToServer *)

\* The attempt is over: the finally block has run
SendReturn(s, outcome) ==
    [IdleSend EXCEPT !.pc = "done", !.id = s.id, !.outcome = outcome,
                     !.isProcessing = ProcessingAfter(outcome)]

\* The send button of the modal of recording id is pressed; recording is
\* what loadRecording has set, null when the id was not found
SendStart(m, id, ok) ==
    /\ send[m].pc = "idle"
    /\ IF m = 1 THEN TRUE ELSE send[m - 1].pc # "idle"
    /\ LET recordings == GetRecordings(ok)
           index == FindIndex(recordings, id)
       IN  send' = [send EXCEPT ![m] =
                      IF index = 0
                      THEN [IdleSend EXCEPT !.pc = "done", !.id = id,
                                            !.outcome = "noRecording"]
                      ELSE [@ EXCEPT !.pc = "fetch", !.id = id,
                                     !.audioUrl = recordings[index].audioUrl,
                                     !.isProcessing = TRUE]]
    /\ UNCHANGED <<backend, local, stop, call, sync, auth, keys, act,
                   isProcessing>>

\* `await fetch(...)`
SendFetchDone(m, ok) ==
    /\ send[m].pc = "fetch"
    /\ send' = [send EXCEPT ![m] =
                  IF ok THEN [@ EXCEPT !.pc = "json"]
                  ELSE SendReturn(@, "requestFailed")]
    /\ UNCHANGED <<backend, local, stop, call, sync, auth, keys, act,
                   isProcessing>>

\* `await response.json()`; a success body starts updateRecording
SendJsonDone(m, ok, data) ==
    /\ send[m].pc = "json"
    /\ send' = [send EXCEPT ![m] =
                  IF ~ok THEN SendReturn(@, "requestFailed")
                  ELSE IF ~data.success THEN SendReturn(@, "nonSuccess")
                  ELSE [@ EXCEPT !.pc = "updateGet", !.data = data]]
    /\ UNCHANGED <<backend, local, stop, call, sync, auth, keys, act,
                   isProcessing>>

\* updateRecording: the read returns; without an entry of the id it returns
\* and loadRecording is awaited
SendUpdateGet(m, ok) ==
    /\ send[m].pc = "updateGet"
    /\ LET recordings == GetRecordings(ok)
           index == FindIndex(recordings, send[m].id)
       IN  send' = [send EXCEPT ![m] =
                      IF index = 0 THEN [@ EXCEPT !.pc = "reload", !.data = NoBody]
                      ELSE [@ EXCEPT !.pc = "updateSet", !.data = NoBody,
                                     !.list = [recordings EXCEPT ![index] =
                                                 Merge(@, UpdatesOf(send[m].data,
                                                                    send[m].audioUrl))]]]
    /\ UNCHANGED <<backend, local, stop, call, sync, auth, keys, act,
                   isProcessing>>

\* The write returns; then `await loadRecording()`
SendUpdateSet(m, ok) ==
    /\ send[m].pc = "updateSet"
    /\ IF ok
       THEN /\ local' = Stringify(send[m].list)
            /\ send' = [send EXCEPT ![m] = [@ EXCEPT !.pc = "reload", !.list = <<>>]]
       ELSE /\ local' = local
            /\ send' = [send EXCEPT ![m] = SendReturn(@, "updateFailed")]
    /\ UNCHANGED <<backend, stop, call, sync, auth, keys, act, isProcessing>>

\* loadRecording returns (it catches its own errors), the alert is shown
SendReload(m) ==
    /\ send[m].pc = "reload"
    /\ send' = [send EXCEPT ![m] = SendReturn(@, "processed")]
    /\ UNCHANGED <<backend, local, stop, call, sync, auth, keys, act,
                   isProcessing>>

NextSend ==
    \/ \E m \in SendIds, id \in FlowIds, ok \in BOOLEAN : SendStart(m, id, ok)
    \/ \E m \in SendIds, ok \in BOOLEAN : SendFetchDone(m, ok)
    \/ \E m \in SendIds, ok \in BOOLEAN, data \in Bodies : SendJsonDone(m, ok, data)
    \/ \E m \in SendIds, ok \in BOOLEAN : SendUpdateGet(m, ok)
    \/ \E m \in SendIds, ok \in BOOLEAN : SendUpdateSet(m, ok)
    \/ \E m \in SendIds : SendReload(m)

NextProcessing == NextClient \/ NextSend

SpecProcessing == Init /\ [][NextProcessing]_vars

----------------------------------------------------------------------------
(* saveRecording, updateRecording, deleteRecording *)

StoreOps == {"save", "update", "delete"}

CallReturn(c, outcome) ==
    [c EXCEPT !.pc = "done", !.list = <<>>, !.outcome = outcome]

\* The function is called, up to `await getRecordings()`; a recording that is
\* saved has an id of its own
CallStart(c, op, id) ==
    /\ call[c].pc = "idle"
    /\ op = "save" => \A d \in CallIds : ~(call[d].op = "save" /\ call[d].id = id)
    /\ call' = [call EXCEPT ![c] = [@ EXCEPT !.pc = "get", !.op = op, !.id = id]]
    /\ UNCHANGED <<backend, local, stop, sync, auth, keys, act, isProcessing,
                   send>>

\* The read returns: unshift, filter or merge, then
\* `await AsyncStorage.setItem`; updateRecording returns when no entry has
\* the id
CallGet(c, ok) ==
    /\ call[c].pc = "get"
    /\ LET recordings == GetRecordings(ok)
           index == FindIndex(recordings, call[c].id)
           list == IF call[c].op = "save"
                   THEN Unshift(recordings,
                                NewRecording(call[c].id, FileUri(call[c].id), 0))
                   ELSE IF call[c].op = "delete"
                   THEN Without(recordings, call[c].id)
                   ELSE IF index = 0 THEN recordings
                   ELSE [recordings EXCEPT ![index] =
                           Merge(@, ServerUpdates(call[c].id))]
       IN  call' = [call EXCEPT ![c] =
                      IF call[c].op = "update" /\ index = 0
                      THEN CallReturn([@ EXCEPT !.readOk = ok], "noEntry")
                      ELSE [@ EXCEPT !.pc = "set", !.list = list, !.readOk = ok]]
    /\ UNCHANGED <<backend, local, stop, sync, auth, keys, act, isProcessing,
                   send>>

\* The write returns; its failure is logged and rethrown
CallSet(c, ok) ==
    /\ call[c].pc = "set"
    /\ IF ok
       THEN /\ local' = Stringify(call[c].list)
            /\ call' = [call EXCEPT ![c] = CallReturn(@, "written")]
       ELSE /\ local' = local
            /\ call' = [call EXCEPT ![c] = CallReturn(@, "thrown")]
    /\ UNCHANGED <<backend, stop, sync, auth, keys, act, isProcessing, send>>

NextStore ==
    \/ \E c \in CallIds, op \in StoreOps, id \in FlowIds : CallStart(c, op, id)
    \/ \E c \in CallIds, ok \in BOOLEAN : CallGet(c, ok)
    \/ \E c \in CallIds, ok \in BOOLEAN : CallSet(c, ok)

SpecStore == Init /\ [][NextStore]_vars

----------------------------------------------------------------------------
(* POST /transcribe-and-summarize *)

\* The handler returns after sending resp
SyncReturn(q, resp) ==
    [IdleSync EXCEPT !.pc = "done", !.tempFile = q.tempFile, !.err = q.err,
                     !.resp = resp]

\* An exception leaves the handler: its promise rejects and nothing is sent
SyncReject(q) ==
    [IdleSync EXCEPT !.pc = "crashed", !.tempFile = q.tempFile, !.err = q.err]

\* The catch block: the staged file is unlinked if it exists and the 500
\* response is sent; unlinkSync may throw, and then nothing is sent
SyncCatch(q, err) ==
    LET u == [q EXCEPT !.err = err]
        after == SyncReturn([u EXCEPT !.tempFile = FALSE], SyncFailedResp(err))
    IN  IF u.tempFile THEN {after, SyncReject(u)} ELSE {after}

\* The request arrives; multer has staged the audio part, if there is one.
\* Up to `await openai.audio.transcriptions.create`
SyncStart(q, hasFile) ==
    /\ sync[q].pc = "idle"
    /\ IF q = 1 THEN TRUE ELSE sync[q - 1].pc # "idle"
    /\ sync' = [sync EXCEPT ![q] =
                  IF hasFile THEN [@ EXCEPT !.pc = "transcribe", !.tempFile = TRUE]
                  ELSE SyncReturn(@, NoFileResp)]
    /\ UNCHANGED <<backend, local, stop, call, auth, keys, act, isProcessing,
                   send>>

\* The transcription returns; transcribedText.substring throws on a missing
\* text; up to `await openai.chat.completions.create`
SyncTranscribe(q, ok, text) ==
    /\ sync[q].pc = "transcribe"
    /\ \E next \in IF ~ok THEN SyncCatch(sync[q], "transcribe")
                    ELSE IF text = Undefined THEN SyncCatch(sync[q], "text")
                    ELSE {[sync[q] EXCEPT !.pc = "summarize", !.text = text]} :
          sync' = [sync EXCEPT ![q] = next]
    /\ UNCHANGED <<backend, local, stop, call, auth, keys, act, isProcessing,
                   send>>

\* The summarization returns; the key is built, the staged file is read
\* (readFileSync may throw) and `await s3Client.send` is issued
SyncSummarize(q, ok, content, extname, timestamp, readOk) ==
    /\ sync[q].pc = "summarize"
    /\ \E next \in IF ~ok THEN SyncCatch(sync[q], "summarize")
                    ELSE IF ~readOk THEN SyncCatch(sync[q], "read")
                    ELSE {[sync[q] EXCEPT !.pc = "put", !.summary = content,
                                          !.summarized = TRUE,
                                          !.fileName = SyncFileName(timestamp, extname)]} :
          sync' = [sync EXCEPT ![q] = next]
    /\ clock' = IF ok THEN timestamp ELSE clock
    /\ UNCHANGED <<rows, blobs, nextId, up, proc, del, lastRead, local, stop,
                   call, auth, keys, act, isProcessing, send>>

\* The blob write returns; then the staged file is unlinked (which may
\* throw, into the catch block) and the success response is sent
SyncPut(q, ok, unlinkOk) ==
    /\ sync[q].pc = "put"
    /\ blobs' = IF ok THEN Put(blobs, sync[q].fileName, q) ELSE blobs
    /\ \E next \in IF ~ok THEN SyncCatch(sync[q], "s3")
                    ELSE IF ~unlinkOk THEN SyncCatch(sync[q], "unlink")
                    ELSE {SyncReturn([sync[q] EXCEPT !.tempFile = FALSE],
                                     SyncOkResp(sync[q].text, sync[q].summary,
                                                sync[q].fileName))} :
          sync' = [sync EXCEPT ![q] = next]
    /\ UNCHANGED <<rows, clock, nextId, up, proc, del, lastRead, local, stop,
                   call, auth, keys, act, isProcessing, send>>

NextSync ==
    \/ \E q \in SyncIds, hasFile \in BOOLEAN : SyncStart(q, hasFile)
    \/ \E q \in SyncIds, ok \in BOOLEAN, text \in TranscriptionResults :
          SyncTranscribe(q, ok, text)
    \/ \E q \in SyncIds, ok \in BOOLEAN, content \in Contents,
          extname \in Extnames, t \in Timestamps, readOk \in BOOLEAN :
          SyncSummarize(q, ok, content, extname, t, readOk)
    \/ \E q \in SyncIds, ok \in BOOLEAN, unlinkOk \in BOOLEAN :
          SyncPut(q, ok, unlinkOk)

SpecSync == Init /\ [][NextSync]_vars

----------------------------------------------------------------------------
(* The client auth store *)

AuthOps == {"login", "signup", "logout", "loadToken"}

\* The action's promise resolves, or rejects with the error thrown
ActReturn(a, outcome) == [a EXCEPT !.pc = "done", !.outcome = outcome]

\* set({ user, token, isAuthenticated: true, isLoading: false })
SignedIn(user, token) ==
    [user |-> user, token |-> token, isLoading |-> FALSE, isAuthenticated |-> TRUE]

\* set({ user: null, token: null, isAuthenticated: false, isLoading: false })
SignedOut ==
    [user |-> Null, token |-> Null, isLoading |-> FALSE, isAuthenticated |-> FALSE]

\* set({ isLoading: false, isAuthenticated: false })
NotLoaded(state) == [state EXCEPT !.isLoading = FALSE, !.isAuthenticated = FALSE]

\* The catch block of login and signup: set({ isLoading: false })
AuthFailedSignedOut(state) == NotLoaded(state)

AuthFailed(state) == [state EXCEPT !.isLoading = FALSE]

\* setUser(user, token)
SetUser(k) ==
    /\ auth' = SignedIn(UserOf(k), TokenOf(k))
    /\ UNCHANGED <<backend, local, stop, call, sync, keys, act, isProcessing,
                   send>>

\* An action is called, up to its first await: login and signup set
\* isLoading and issue the request, logout issues the two removals and
\* loadToken the two reads
ActStart(a, op, k) ==
    /\ act[a].pc = "idle"
    /\ IF a = 1 THEN TRUE ELSE act[a - 1].pc # "idle"
    /\ act' = [act EXCEPT ![a] =
                 [@ EXCEPT !.op = op,
                           !.account = IF op \in {"login", "signup"} THEN k ELSE 0,
                           !.pc = IF op \in {"login", "signup"} THEN "fetch"
                                  ELSE IF op = "logout" THEN "remove" ELSE "load"]]
    /\ auth' = IF op \in {"login", "signup"}
               THEN [auth EXCEPT !.isLoading = TRUE] ELSE auth
    /\ UNCHANGED <<backend, local, stop, call, sync, keys, isProcessing, send>>

\* loadToken: `await Promise.all([getItem, getItem])` and JSON.parse
LoadDone(a, ok) ==
    /\ act[a].pc = "load"
    /\ auth' = IF ok /\ keys.token # Null /\ keys.user # Null
               THEN SignedIn(keys.user, keys.token)
               ELSE NotLoaded(auth)
    /\ act' = [act EXCEPT ![a] = ActReturn(@, "resolved")]
    /\ UNCHANGED <<backend, local, stop, call, sync, keys, isProcessing, send>>

\* login, signup: `await fetch(...)`
AuthFetchDone(a, ok) ==
    /\ act[a].pc = "fetch"
    /\ IF ok
       THEN /\ act' = [act EXCEPT ![a] = [@ EXCEPT !.pc = "json"]]
            /\ auth' = auth
       ELSE /\ act' = [act EXCEPT ![a] = ActReturn(@, "thrown")]
            /\ auth' = AuthFailed(auth)
    /\ UNCHANGED <<backend, local, stop, call, sync, keys, isProcessing, send>>

\* `await response.json()`, the test of response.ok, and the two writes
\* issued
AuthJsonDone(a, ok, responseOk) ==
    /\ act[a].pc = "json"
    /\ IF ok /\ responseOk
       THEN /\ act' = [act EXCEPT ![a] = [@ EXCEPT !.pc = "persist"]]
            /\ auth' = auth
       ELSE /\ act' = [act EXCEPT ![a] = ActReturn(@, "thrown")]
            /\ auth' = AuthFailed(auth)
    /\ UNCHANGED <<backend, local, stop, call, sync, keys, isProcessing, send>>

\* `await Promise.all([setItem(TOKEN_KEY), setItem(USER_KEY)])`: each write
\* is applied or fails
PersistDone(a, tokenOk, userOk) ==
    /\ act[a].pc = "persist"
    /\ keys' = [token |-> IF tokenOk THEN TokenOf(act[a].account) ELSE keys.token,
                user |-> IF userOk THEN UserOf(act[a].account) ELSE keys.user]
    /\ IF tokenOk /\ userOk
       THEN /\ act' = [act EXCEPT ![a] = ActReturn(@, "resolved")]
            /\ auth' = SignedIn(UserOf(act[a].account), TokenOf(act[a].account))
       ELSE /\ act' = [act EXCEPT ![a] = ActReturn(@, "thrown")]
            /\ auth' = AuthFailed(auth)
    /\ UNCHANGED <<backend, local, stop, call, sync, isProcessing, send>>

\* logout: `await Promise.all([removeItem, removeItem])`; a failure is logged
RemoveDone(a, tokenOk, userOk) ==
    /\ act[a].pc = "remove"
    /\ keys' = [token |-> IF tokenOk THEN Null ELSE keys.token,
                user |-> IF userOk THEN Null ELSE keys.user]
    /\ auth' = IF tokenOk /\ userOk THEN SignedOut ELSE auth
    /\ act' = [act EXCEPT ![a] = ActReturn(@, "resolved")]
    /\ UNCHANGED <<backend, local, stop, call, sync, isProcessing, send>>

NextAuth ==
    \/ \E k \in Accounts : SetUser(k)
    \/ \E a \in ActIds, op \in AuthOps, k \in Accounts : ActStart(a, op, k)
    \/ \E a \in ActIds, ok \in BOOLEAN : LoadDone(a, ok)
    \/ \E a \in ActIds, ok \in BOOLEAN : AuthFetchDone(a, ok)
    \/ \E a \in ActIds, ok \in BOOLEAN, responseOk \in BOOLEAN :
          AuthJsonDone(a, ok, responseOk)
    \/ \E a \in ActIds, tokenOk \in BOOLEAN, userOk \in BOOLEAN :
          PersistDone(a, tokenOk, userOk)
    \/ \E a \in ActIds, tokenOk \in BOOLEAN, userOk \in BOOLEAN :
          RemoveDone(a, tokenOk, userOk)

SpecAuth == Init /\ [][NextAuth]_vars

----------------------------------------------------------------------------
(* updateRecording alone, over the lists the store may hold *)

\* Lists of up to MaxListLen recordings with ids that may repeat; the audio
\* path of an entry tells its place
StoredLists ==
    {[i \in 1..Len(ids) |-> NewRecording(ids[i], FileUri(i), 0)] :
        ids \in UNION {[1..n -> FlowIds] : n \in 0..MaxListLen}}

StoredItems == {NullJson} \cup {Stringify(list) : list \in StoredLists}

InitUpdate ==
    /\ local \in StoredItems
    /\ rows = <<>>
    /\ blobs = <<>>
    /\ clock = 0
    /\ nextId = 1
    /\ up = [h \in UploadIds |-> IdleUpload]
    /\ proc = [r \in RecIds |-> IdleProc]
    /\ del = [d \in DeleteIds |-> IdleDelete]
    /\ lastRead = NoRead
    /\ stop = [f \in FlowIds |-> IdleStop]
    /\ call = [c \in CallIds |-> IdleCall]
    /\ sync = [q \in SyncIds |-> IdleSync]
    /\ auth = InitialAuth
    /\ keys = NoKeys
    /\ act = [a \in ActIds |-> IdleAct]
    /\ isProcessing = FALSE
    /\ send = [m \in SendIds |-> IdleSend]

NextUpdate ==
    \/ \E id \in FlowIds : CallStart(1, "update", id)
    \/ \E ok \in BOOLEAN : CallGet(1, ok)
    \/ \E ok \in BOOLEAN : CallSet(1, ok)

SpecUpdate == InitUpdate /\ [][NextUpdate]_vars

----------------------------------------------------------------------------
(* The title derivation, over the texts the transcription service may return *)

TitleAlphabet == {"a", " ", ".", "!", "?"}

ShortTexts == UNION {[1..n -> TitleAlphabet] : n \in 0..MaxTextLen}

Repeat(c, n) == [i \in 1..n |-> c]

\* Texts around the 100 characters the title is cut at
LongTexts ==
    {Repeat("a", TitleMaxLen), Repeat("a", TitleMaxLen + 1),
     <<" ">> \o Repeat("a", TitleMaxLen + 1),
     Repeat("a", TitleMaxLen - 1) \o <<" ", "a", ".", "a">>,
     Repeat("a", TitleMaxLen - 1) \o <<".", "a">>}

TitleTexts == ShortTexts \cup LongTexts \cup {HelloText}

\* The state in which the processor of the first recording awaits its final
\* update, with text as the transcription
InitTitle ==
    \E text \in TitleTexts :
        LET key == FileName(0, ".m4a")
            row == NewRow(1, "A", key, 0, 0)
        IN  /\ rows = Put(<<>>, 1, WithStatus(row, "processing"))
            /\ blobs = Put(<<>>, key, 1)
            /\ clock = 0
            /\ nextId = 2
            /\ up = [h \in UploadIds |->
                        IF h = 1
                        THEN UploadConfirm([IdleUpload EXCEPT !.user = "A"], row)
                        ELSE IdleUpload]
            /\ proc = [r \in RecIds |->
                        IF r = 1
                        THEN [Dispatch(key) EXCEPT !.pc = "finalUpdate", !.audio = 1,
                                                   !.text = text, !.tc = 1, !.sc = 1,
                                                   !.summary = SummaryText]
                        ELSE IdleProc]
            /\ del = [d \in DeleteIds |-> IdleDelete]
            /\ lastRead = NoRead
            /\ local = NullJson
            /\ stop = [f \in FlowIds |-> IdleStop]
            /\ call = [c \in CallIds |-> IdleCall]
            /\ sync = [q \in SyncIds |-> IdleSync]
            /\ auth = InitialAuth
            /\ keys = NoKeys
            /\ act = [a \in ActIds |-> IdleAct]
            /\ isProcessing = FALSE
            /\ send = [m \in SendIds |-> IdleSend]

NextTitle == \E r \in RecIds : ProcFinalUpdate(r, TRUE)

SpecTitle == InitTitle /\ [][NextTitle]_vars

\* The uploads and the background tasks alone, every awaited call of a task
\* returning in the end: the event loop resumes a task whose call has
\* returned, and a task takes at most one step per call
NextLive == Upload \/ Process

SpecLive == Init /\ [][NextLive]_vars /\ WF_vars(Process)

----------------------------------------------------------------------------
(* generateTitle, over the transcriptions the server may return *)

\* Texts around the 50 characters the client's title is cut at
ClientLongTexts ==
    {Repeat("a", ClientTitleMaxLen), Repeat("a", ClientTitleMaxLen + 1),
     <<" ">> \o Repeat("a", ClientTitleMaxLen + 1),
     Repeat("a", ClientTitleMaxLen - 1) \o <<" ", "a", ".", "a">>,
     Repeat("a", ClientTitleMaxLen - 1) \o <<".", "a">>,
     <<".">> \o Repeat("a", ClientTitleMaxLen + 1)}

ClientTitleTexts == ShortTexts \cup ClientLongTexts \cup {HelloText}

\* The values of maxLength: small ones and the default
MaxLengths == 1..MaxTextLen \cup {ClientTitleMaxLen}

\* The state in which processRecording of the first recording, which is in
\* the list, has received a success body with text as the transcription
InitGenerate ==
    \E text \in ClientTitleTexts :
        /\ local = Stringify(<<NewRecording(1, FileUri(1), 0)>>)
        /\ stop = [f \in FlowIds |->
                     IF f = 1
                     THEN [IdleStop EXCEPT !.pc = "updateGet", !.id = 1,
                                           !.uri = FileUri(1), !.saved = TRUE,
                                           !.sent = TRUE,
                                           !.data = SuccessBody(text, SummaryText,
                                                                Undefined)]
                     ELSE IdleStop]
        /\ rows = <<>>
        /\ blobs = <<>>
        /\ clock = 0
        /\ nextId = 1
        /\ up = [h \in UploadIds |-> IdleUpload]
        /\ proc = [r \in RecIds |-> IdleProc]
        /\ del = [d \in DeleteIds |-> IdleDelete]
        /\ lastRead = NoRead
        /\ call = [c \in CallIds |-> IdleCall]
        /\ sync = [q \in SyncIds |-> IdleSync]
        /\ auth = InitialAuth
        /\ keys = NoKeys
        /\ act = [a \in ActIds |-> IdleAct]
        /\ isProcessing = TRUE
        /\ send = [m \in SendIds |-> IdleSend]

NextGenerate == UpdateGet(1, TRUE) \/ UpdateSet(1, TRUE)

SpecGenerate == InitGenerate /\ [][NextGenerate]_vars

----------------------------------------------------------------------------
(* Vocabulary of the properties *)

Terminal == {"processed", "failed"}

StatusRank(status) ==
    CASE status = "uploaded" -> 0
      [] status = "processing" -> 1
      [] OTHER -> 2

Placeholders(row) ==
    /\ row.title = PlaceholderTitle
    /\ row.summary = ColumnDefault
    /\ row.transcription = ColumnDefault

\* The upload that created row r has returned after sending its confirmation
Confirmed(r) ==
    \E h \in UploadIds :
        /\ up[h].pc = "done"
        /\ up[h].resp.code = 200
        /\ up[h].resp.items[1].id = r
        /\ up[h].resp.items[1].status = "uploaded"

\* The processor of r has ended after catching an error
Caught(r) == proc[r].pc = "done" /\ proc[r].err # ""

\* The status a row is left with when the mark-as-failed update is rejected
StatusBefore(step) == IF step = "markProcessing" THEN "uploaded" ELSE "processing"

\* The where clauses of the store reads, updates and deletes now awaited
PendingWheres ==
    {FindFirstWhere : d \in {d \in DeleteIds : del[d].pc = "find"}}
    \cup {DeleteWhere : d \in {d \in DeleteIds : del[d].pc = "delete"}}
    \cup {UpdateWhere : h \in {h \in UploadIds : up[h].pc = "compensate"}}
    \cup {UpdateWhere : r \in {r \in RecIds :
            proc[r].pc \in {"markProcessing", "finalUpdate", "markFailed"}}}

\* Every response a read made as user can get holds rows of that user only
ReadsIsolated ==
    \A user \in Users, ok \in BOOLEAN :
        /\ \A id \in ParamIds :
              \A i \in DOMAIN GetOneResp(user, id, ok).items :
                  GetOneResp(user, id, ok).items[i].userId = user
        /\ \A id \in FindManyIds(user) : rows[id].userId = user

\* A row is changed or removed in this step only by a request of its owner
\* or by the processor started for that row
ChangedByOwner ==
    \A id \in DOMAIN rows :
        (id \notin DOMAIN rows' \/ rows'[id] # rows[id]) =>
            \/ proc'[id] # proc[id]
            \/ \E h \in UploadIds : up'[h] # up[h] /\ up[h].user = rows[id].userId
            \/ \E d \in DeleteIds : del'[d] # del[d] /\ del[d].user = rows[id].userId

----------------------------------------------------------------------------
(* Properties *)

\* C1: a row is created with status uploaded; in every step its status stays
\* or moves forward along uploaded, processing, {processed, failed}; a row
\* that is processed or failed never changes status again.
C1_StatusMovesForward ==
    [][\A id \in DOMAIN rows' :
          IF id \in DOMAIN rows
          THEN \/ rows'[id].status = rows[id].status
               \/ /\ rows[id].status \notin Terminal
                  /\ StatusRank(rows'[id].status) > StatusRank(rows[id].status)
          ELSE rows'[id].status = "uploaded"]_vars

C1_Witness ==
    \E i, j \in DOMAIN rows :
        rows[i].status = "processed" /\ rows[j].status = "failed"

\* C2: whenever a row has left status uploaded through its processor, or a
\* transcription or summarization call has been issued for it, or its
\* processor is running, the upload handler has already sent the confirmation
\* with status uploaded and returned; every confirmation carries status
\* uploaded.
C2_ConfirmedBeforeProcessing ==
    /\ \A r \in RecIds :
          (\/ proc[r].pc # "none"
           \/ (r \in DOMAIN rows /\ rows[r].status \in {"processing", "processed"}))
              => Confirmed(r)
    /\ \A h \in UploadIds :
          up[h].resp.code = 200 => up[h].resp.items[1].status = "uploaded"

C2_Witness ==
    \E r \in DOMAIN rows :
        /\ rows[r].status = "processing"
        /\ proc[r].pc = "transcribe"
        /\ Confirmed(r)

\* C3 as stated: once the processor has ended after the transcription or the
\* summarization call threw, the row (if it still exists) has status failed
\* and its placeholder title, summary and transcription.
C3_Original ==
    \A r \in RecIds :
        (Caught(r) /\ proc[r].err \in {"transcribe", "summarize"}
                   /\ r \in DOMAIN rows) =>
            rows[r].status = "failed" /\ Placeholders(rows[r])

\* C3 as amended: once the processor has ended after the transcription or the
\* summarization call threw, the row (if it still exists) keeps its
\* placeholder title, summary and transcription; it has status failed when
\* the mark-as-failed update was applied and is left in processing when that
\* update was rejected.
C3_FailedUnlessRejected ==
    \A r \in RecIds :
        (Caught(r) /\ proc[r].err \in {"transcribe", "summarize"}
                   /\ r \in DOMAIN rows) =>
            /\ Placeholders(rows[r])
            /\ rows[r].status = IF proc[r].rejected THEN "processing" ELSE "failed"

C3_Witness ==
    \E r, q \in DOMAIN rows :
        /\ Caught(r) /\ proc[r].err = "summarize" /\ proc[r].rejected
        /\ rows[r].status = "processing"
        /\ Caught(q) /\ proc[q].err = "transcribe" /\ ~proc[q].rejected
        /\ rows[q].status = "failed"

\* C4 as stated: once the processor has ended after an error at any of its
\* steps, the row (if it still exists) has status failed.
C4_Original ==
    \A r \in RecIds : (Caught(r) /\ r \in DOMAIN rows) => rows[r].status = "failed"

\* C4 as amended: once the processor has ended after an error at any of its
\* steps, the row (if it still exists) has status failed when the
\* mark-as-failed update was applied, and GET /recordings/:id by its owner
\* then returns it with status failed; when that update was rejected the row
\* keeps the status it had, uploaded or processing.
C4_MarkedFailedUnlessRejected ==
    \A r \in RecIds :
        (Caught(r) /\ r \in DOMAIN rows) =>
            IF proc[r].rejected
            THEN rows[r].status = StatusBefore(proc[r].err)
            ELSE /\ rows[r].status = "failed"
                 /\ GetOneResp(rows[r].userId, r, TRUE).code = 200
                 /\ GetOneResp(rows[r].userId, r, TRUE).items[1].status = "failed"

C4_Witness ==
    \E r, q \in DOMAIN rows :
        /\ Caught(r) /\ proc[r].err = "markProcessing" /\ proc[r].rejected
        /\ rows[r].status = "uploaded"
        /\ Caught(q) /\ proc[q].err = "finalUpdate" /\ rows[q].status = "failed"

\* C5: a transcription or summarization call is issued, and is in flight,
\* only while the row (if it still exists) has status processing; a row for
\* which a call has been issued is never in status uploaded.
C5_CallsWhileProcessing ==
    /\ [](\A r \in RecIds :
            /\ proc[r].pc \in {"transcribe", "summarize"} /\ r \in DOMAIN rows
                  => rows[r].status = "processing"
            /\ proc[r].tc + proc[r].sc > 0 /\ r \in DOMAIN rows
                  => rows[r].status # "uploaded")
    /\ [][\A r \in RecIds :
            (proc'[r].tc > proc[r].tc \/ proc'[r].sc > proc[r].sc)
             /\ r \in DOMAIN rows
                => rows[r].status = "processing"]_vars

C5_Witness ==
    \E r \in DOMAIN rows :
        proc[r].pc = "summarize" /\ proc[r].tc = 1 /\ rows[r].status = "processing"

\* C6: the audioUrl of every row is a key present in the blob store.
C6_RowHasBlob == \A id \in DOMAIN rows : rows[id].audioUrl \in DOMAIN blobs

C6_Witness ==
    /\ \E id \in DOMAIN rows : rows[id].audioUrl \in DOMAIN blobs
    /\ \E h \in UploadIds : up[h].resp = UploadFailedResp("s3")

\* C7: in the step in which the blob write of an upload fails, the handler
\* sends the 500 upload-failed response, no row is created or changed and no
\* processor is started.
C7_Original ==
    [][\A h \in UploadIds :
          (up[h].pc = "s3" /\ up'[h].pc \in {"done", "crashed"}) =>
              /\ up'[h].resp = UploadFailedResp("s3")
              /\ rows' = rows
              /\ proc' = proc]_vars

\* C8: for a caller, GET /recordings/:id of a row owned by another user and
\* of an id no row has give the same response, the 404 'Recording not found'
\* when the store answers; the response sent to a caller who does not own the
\* row is never a success.
C8_ForeignLikeAbsent ==
    /\ \A user \in Users, ok \in BOOLEAN, i, j \in ParamIds :
          (OwnerOf(i) \notin {"", user} /\ OwnerOf(j) = "") =>
              /\ GetOneResp(user, i, ok) = GetOneResp(user, j, ok)
              /\ GetOneResp(user, i, TRUE) = NotFoundResp
    /\ (lastRead.kind = "get" /\ lastRead.rowOwner # lastRead.user) =>
          lastRead.resp \in {NotFoundResp, GetOneResp(lastRead.user, NoId, FALSE)}

C8_Witness ==
    /\ lastRead.kind = "get"
    /\ lastRead.rowOwner \notin {"", lastRead.user}
    /\ lastRead.resp = NotFoundResp

\* C9 as stated: every store read, update and delete awaited filters by both
\* id and userId, and every response to a read holds rows of the caller only.
C9_Original ==
    /\ \A w \in PendingWheres : {"id", "userId"} \subseteq w
    /\ ReadsIsolated

\* C9 as amended: lookups filter by the caller's userId; the store updates
\* and deletes filter by id alone, with the id of a row that the request
\* created or found under the caller's userId.  No step of a request made as
\* one user changes or removes a row of another user, and every response to a
\* read holds rows of the caller only.
C9_NoCrossUserAccess ==
    /\ [](/\ "userId" \in FindFirstWhere /\ "userId" \in FindManyWhere
          /\ \A d \in DeleteIds :
                (del[d].pc = "delete" /\ del[d].id \in DOMAIN rows) =>
                    rows[del[d].id].userId = del[d].user
          /\ \A h \in UploadIds :
                (up[h].pc = "compensate" /\ up[h].recordingId \in DOMAIN rows) =>
                    rows[up[h].recordingId].userId = up[h].user
          /\ ReadsIsolated)
    /\ [][ChangedByOwner]_vars

C9_Witness ==
    /\ \E d \in DeleteIds :
          /\ del[d].pc = "find"
          /\ del[d].id \in DOMAIN rows
          /\ rows[del[d].id].userId # del[d].user
    /\ \E r \in RecIds : proc[r].pc = "markFailed"

\* The step of delete request d that answers a caller who does not own the row
NonOwnerAnswered(d) ==
    /\ del[d].pc = "find"
    /\ del'[d].pc # "find"
    /\ OwnerOf(del[d].id) # del[d].user

\* The step in which the store applies the delete of request d
DeleteApplied(d) == del[d].pc = "delete" /\ del'[d].resp = DeletedResp

\* No id the store has handed out and no longer holds is answered by
\* GET /recordings/:id or listed by GET /recordings, and none comes back
StaysDeleted ==
    /\ [](\A id \in ParamIds, user \in Users :
            id \notin DOMAIN rows =>
                GetOneResp(user, id, TRUE) = NotFoundResp /\ id \notin FindManyIds(user))
    /\ [][\A id \in ParamIds :
            (id < nextId /\ id \notin DOMAIN rows) => id \notin DOMAIN rows']_vars

\* C10 as stated: a successful DELETE removes exactly the owner's row, which
\* no later list or get returns; a DELETE by a non-owner is answered 404 and
\* changes no row.
C10_Original ==
    /\ StaysDeleted
    /\ [][\A d \in DeleteIds :
            /\ DeleteApplied(d) =>
                  /\ rows[del[d].id].userId = del[d].user
                  /\ DOMAIN rows' = DOMAIN rows \ {del[d].id}
                  /\ \A id \in DOMAIN rows' : rows'[id] = rows[id]
            /\ NonOwnerAnswered(d) =>
                  del'[d].resp = NotFoundResp /\ rows' = rows]_vars

\* C10 as amended: a successful DELETE removes exactly the owner's row, which
\* no later list or get returns; a DELETE by a non-owner changes no row and
\* is answered 404, or 500 when the store lookup fails.
C10_DeleteRemovesOwnRowOnly ==
    /\ StaysDeleted
    /\ [][\A d \in DeleteIds :
            /\ DeleteApplied(d) =>
                  /\ rows[del[d].id].userId = del[d].user
                  /\ DOMAIN rows' = DOMAIN rows \ {del[d].id}
                  /\ \A id \in DOMAIN rows' : rows'[id] = rows[id]
            /\ NonOwnerAnswered(d) =>
                  /\ del'[d].resp \in {NotFoundResp, DeleteFailedResp}
                  /\ rows' = rows]_vars

C10_Witness ==
    /\ \E d \in DeleteIds : del[d].resp = DeletedResp
    /\ nextId = 3
    /\ Cardinality(DOMAIN rows) = 1

\* What the final update of processor r writes, from the task's locals
Results(r) ==
    [title |-> DeriveTitle(proc[r].text), summary |-> proc[r].summary,
     transcription |-> proc[r].text]

\* The title, summary and transcription of a row
Fields(row) ==
    [title |-> row.title, summary |-> row.summary,
     transcription |-> row.transcription]

\* C11: a row has status processed exactly when its title, summary and
\* transcription are no longer all placeholders; these fields change only in
\* the step that sets status processed, and that step writes the processor's
\* title, summary and transcription together; what GET /recordings/:id gives
\* the owner is the row as it is.
C11_ResultsWithProcessed ==
    /\ [](\A id \in DOMAIN rows :
            /\ rows[id].status = "processed" <=> ~Placeholders(rows[id])
            /\ GetOneResp(rows[id].userId, id, TRUE).items = <<rows[id]>>)
    /\ [][\A id \in DOMAIN rows \cap DOMAIN rows' :
            /\ Fields(rows'[id]) # Fields(rows[id]) <=>
                  (rows'[id].status = "processed" /\ rows[id].status # "processed")
            /\ Fields(rows'[id]) # Fields(rows[id]) =>
                  (proc[id].pc = "finalUpdate" /\ Fields(rows'[id]) = Results(id))]_vars

C11_Witness ==
    \E i, j \in DOMAIN rows :
        /\ rows[i].status = "processed"
        /\ rows[i].title = UntitledRecording
        /\ rows[i].transcription = EmptyText
        /\ rows[j].status = "processing"
        /\ proc[j].pc = "finalUpdate"

\* The rows as they would be with every status reset
WithoutStatus(rs) == [id \in DOMAIN rs |-> [rs[id] EXCEPT !.status = "uploaded"]]

\* The step is taken by processor r on its failure path: an error is caught,
\* or the mark-as-failed update resolves or is rejected
FailureStep(r) ==
    /\ proc'[r] # proc[r]
    /\ proc'[r].err # ""

\* C12: a response that has been sent is never changed; a step on the failure
\* path of a processor changes nothing of the upload and delete handlers, the
\* blobs or the other processors, and of the rows at most the status of its
\* own row; the task's promise is never rejected.
C12_BackgroundFailureAbsorbed ==
    /\ [](\A r \in RecIds : proc[r].pc # "rejected")
    /\ [][\A h \in UploadIds : up[h].pc = "done" => up'[h] = up[h]]_vars
    /\ [][\A r \in RecIds :
            FailureStep(r) =>
                /\ up' = up /\ del' = del /\ blobs' = blobs /\ lastRead' = lastRead
                /\ \A q \in RecIds \ {r} : proc'[q] = proc[q]
                /\ DOMAIN rows' = DOMAIN rows
                /\ WithoutStatus(rows') = WithoutStatus(rows)
                /\ \A id \in DOMAIN rows : rows'[id] # rows[id] => id = r]_vars

C12_Witness ==
    \E r \in DOMAIN rows, h \in UploadIds :
        /\ Caught(r) /\ proc[r].rejected
        /\ rows[r].status = "processing"
        /\ up[h].pc = "done" /\ up[h].resp.code = 200 /\ up[h].resp.items[1].id = r

\* C13: when the row has been created and the step does not send the
\* confirmation, the compensating update is issued; when that update
\* resolves or is rejected the 500 upload-failed response is sent, and a
\* rejection leaves the rows as they are.
C13_Original ==
    [][\A h \in UploadIds :
          /\ (up[h].pc = "create" /\ nextId' # nextId /\ up'[h].resp.code # 200)
                => up'[h].pc = "compensate"
          /\ up[h].pc = "compensate" =>
                /\ up'[h] = up[h] \/ up'[h].resp = UploadFailedResp(up[h].err)
                /\ up'[h] = up[h] \/ rows' = rows
                   \/ rows' = [rows EXCEPT ![up[h].recordingId].status = "failed"]]_vars

\* The handler of upload h has finished: it has returned or its promise has
\* been rejected
Finished(h) == up[h].pc \in {"done", "crashed"}

\* C14 as stated: when the upload handler has finished, the temporary file
\* staged for it no longer exists.
C14_Original == \A h \in UploadIds : Finished(h) => ~up[h].tempFile

\* C14 as amended: when the upload handler has finished by sending a
\* response, the temporary file staged for it no longer exists; the file is
\* left behind only when its deletion in the catch block threw, and then the
\* handler has finished without sending a response.
C14_TempFileGoneUnlessUnlinkThrew ==
    \A h \in UploadIds :
        /\ up[h].pc = "done" => ~up[h].tempFile
        /\ up[h].pc = "compensate" => ~up[h].tempFile
        /\ up[h].pc = "crashed" => (up[h].tempFile /\ up[h].resp = NoResp)

C14_Witness ==
    \E h, g \in UploadIds :
        /\ up[h].pc = "done" /\ up[h].resp.code = 500 /\ ~up[h].tempFile
        /\ up[g].pc = "crashed" /\ up[g].tempFile

\* C15: a failure to delete the temporary file changes neither the response
\* nor the row: the handler never ends without a response, and the step in
\* which the row is created sends the confirmation, leaves the row uploaded
\* and starts its processor.
C15_Original ==
    [][\A h \in UploadIds :
          /\ up'[h].pc # "crashed"
          /\ (up[h].pc = "create" /\ nextId' # nextId) =>
                /\ up'[h].resp.code = 200
                /\ proc'[nextId].pc = "markProcessing"]_vars

\* C16: the request without an audio part (nothing is staged for it) is
\* answered in its first step with 400 'No audio file provided'; that step
\* writes no blob, creates no row and starts no processor, and the handler
\* has then returned, so that it never does.
C16_NoFileNoEffect ==
    /\ [](\A h \in UploadIds :
            up[h].resp.code = 400 =>
                /\ up[h].pc = "done"
                /\ \A k \in DOMAIN blobs : blobs[k] # h)
    /\ [][\A h \in UploadIds :
            (up[h].pc = "idle" /\ up'[h] # up[h] /\ ~up'[h].tempFile) =>
                /\ up'[h].pc = "done"
                /\ up'[h].resp.code = 400
                /\ up'[h].resp.error = "No audio file provided"
                /\ rows' = rows /\ blobs' = blobs /\ proc' = proc
                /\ nextId' = nextId]_vars

C16_Witness ==
    \E h, g \in UploadIds :
        /\ up[h].resp.code = 400
        /\ up[g].resp.code = 200

\* C17: for each recording the transcription service and the summarization
\* service are called at most once; no processor is running for a row that
\* is failed; a processor that has ended never runs again and a failed row
\* is never written again.
C17_NoRetry ==
    /\ [](\A r \in RecIds :
            /\ proc[r].tc <= 1
            /\ proc[r].sc <= 1
            /\ (r \in DOMAIN rows /\ rows[r].status = "failed")
                  => proc[r].pc \in {"none", "done"})
    /\ [][\A r \in RecIds :
            /\ proc[r].pc = "done" => proc'[r] = proc[r]
            /\ (r \in DOMAIN rows /\ r \in DOMAIN rows'
                /\ rows[r].status = "failed") => rows'[r] = rows[r]]_vars

C17_Witness ==
    \E r \in DOMAIN rows :
        /\ rows[r].status = "failed"
        /\ proc[r].pc = "done" /\ proc[r].tc = 1 /\ proc[r].sc = 1

\* The list served last holds every row of its caller, those not processed
\* with the placeholder title and summary
ListedWithPlaceholders ==
    (lastRead.kind = "list" /\ lastRead.resp.code = 200) =>
        \A id \in DOMAIN rows :
            rows[id].userId = lastRead.user =>
                \E i \in DOMAIN lastRead.resp.items :
                    /\ lastRead.resp.items[i].id = id
                    /\ rows[id].status # "processed" =>
                          /\ lastRead.resp.items[i].title = PlaceholderTitle
                          /\ lastRead.resp.items[i].summary = ColumnDefault

\* The processor of r has ended without an error
Completed(r) == proc[r].pc = "done" /\ proc[r].err = ""

C19_Original ==
    /\ \A i, j \in DOMAIN rows : i # j => rows[i].audioUrl # rows[j].audioUrl
    /\ \A h \in UploadIds, r \in RecIds :
          (/\ up[h].resp.code = 200
           /\ up[h].resp.items[1].id = r
           /\ proc[r].pc = "transcribe") => proc[r].audio = h

\* The processors and upload handlers with a write to row id now awaited
PendingWriters(id) ==
    {<<"processor", r>> : r \in {r \in RecIds :
        r = id /\ proc[r].pc \in {"markProcessing", "finalUpdate", "markFailed"}}}
    \cup {<<"upload", h>> : h \in {h \in UploadIds :
        up[h].pc = "compensate" /\ up[h].recordingId = id}}

\* The delete handlers with the delete of row id now awaited
PendingDeletes(id) ==
    {<<"delete", d>> : d \in {d \in DeleteIds :
        del[d].pc = "delete" /\ del[d].id = id}}

\* A step of processor r writes no row but its own
OwnRowOnly ==
    \A r \in RecIds :
        (proc[r].pc # "none" /\ proc'[r] # proc[r]) =>
            /\ DOMAIN rows' = DOMAIN rows
            /\ \A id \in DOMAIN rows : id # r => rows'[id] = rows[id]

\* Every row is created under an id no row had, and a processor is started
\* only in that step, for that id
DistinctRows ==
    /\ nextId' # nextId =>
          /\ nextId \notin DOMAIN rows
          /\ DOMAIN rows' = DOMAIN rows \cup {nextId}
    /\ \A r \in RecIds :
          proc'[r].pc = "markProcessing" =>
              \/ proc[r].pc = "markProcessing"
              \/ proc[r].pc = "none" /\ r = nextId /\ nextId' # nextId

\* C20 as stated: a step of a processor writes no row but its own, and at
\* most one task, upload handler, processor or delete handler, has a write
\* to a given row pending.
C20_Original ==
    /\ [](\A id \in RecIds :
            Cardinality(PendingWriters(id) \cup PendingDeletes(id)) <= 1)
    /\ [][OwnRowOnly /\ DistinctRows]_vars

\* C20 as amended: a step of a processor writes no row but its own, every
\* upload creates a distinct row with one processor, and at most one upload
\* handler or processor has a write to a given row pending; the delete of a
\* row by its owner may be pending together with such a write.
C20_OneWriterBesidesDelete ==
    /\ [](\A id \in RecIds : Cardinality(PendingWriters(id)) <= 1)
    /\ [][OwnRowOnly /\ DistinctRows]_vars

C20_Witness ==
    \E id \in DOMAIN rows :
        /\ PendingDeletes(id) # {}
        /\ PendingWriters(id) # {}
        /\ \E q \in DOMAIN rows : q # id /\ proc[q].pc = "finalUpdate"

\* A step of processor r leaves the other processors as they are
OwnTaskOnly ==
    \A r \in RecIds :
        (proc[r].pc # "none" /\ proc'[r] # proc[r]) =>
            /\ \A q \in RecIds \ {r} : proc'[q] = proc[q]
            /\ blobs' = blobs

\* C21: a step of the processor of one recording changes no other row, no
\* other processor and no blob, so the outcome of a recording is decided by
\* the steps of its own processor alone, whatever happens to the others;
\* nothing orders the processors of two recordings, and the recording
\* uploaded second can reach its terminal status first.
C21_ProcessorsIndependent == [][OwnRowOnly /\ OwnTaskOnly]_vars

\* The recording uploaded second is processed while the first, of the same
\* user, is failing
C21_Witness ==
    /\ 1 \in DOMAIN rows /\ 2 \in DOMAIN rows
    /\ rows[1].userId = rows[2].userId
    /\ rows[2].status = "processed"
    /\ rows[1].status = "processing"
    /\ proc[1].pc = "markFailed"

\* The recording uploaded first is processed while the second is in progress
C21_InOrder ==
    /\ 1 \in DOMAIN rows /\ 2 \in DOMAIN rows
    /\ rows[1].userId = rows[2].userId
    /\ rows[1].status = "processed"
    /\ rows[2].status = "processing"

\* The transcription or summarization call of processor r is outstanding
\* before and after the step
CallOutstanding(r) ==
    /\ proc[r].pc \in {"transcribe", "summarize"}
    /\ proc'[r] = proc[r]

\* C22 as stated: in every step over which the transcription or
\* summarization call of a recording stays outstanding, its row stays, in
\* status processing.
C22_Original ==
    [][\A r \in DOMAIN rows :
          CallOutstanding(r) => (r \in DOMAIN rows' /\ rows'[r].status = "processing")]_vars

\* C22 as amended: in every step over which the transcription or
\* summarization call of a recording stays outstanding, its row, unless the
\* step is the owner's delete of it, stays as it is, in status processing;
\* no step moves it to failed or to any other status.
C22_HungCallLeavesProcessing ==
    [][\A r \in DOMAIN rows :
          CallOutstanding(r) =>
              /\ rows[r].status = "processing"
              /\ r \in DOMAIN rows' => rows'[r] = rows[r]
              /\ r \notin DOMAIN rows' =>
                    \E d \in DeleteIds :
                        /\ del[d].pc = "delete" /\ del[d].id = r
                        /\ del[d].user = rows[r].userId
                        /\ del'[d].resp = DeletedResp]_vars

C22_Witness ==
    \E r, q \in DOMAIN rows :
        /\ r # q
        /\ proc[r].pc = "transcribe" /\ rows[r].status = "processing"
        /\ proc[q].pc = "done" /\ rows[q].status = "failed"
        /\ \E d \in DeleteIds : del[d].pc = "done"

\* C25: a store call that fails in a synchronous handler is answered 500 and
\* changes no row: the list, the get, the lookup and the delete of DELETE,
\* and the row creation of the upload.
C25_Original ==
    /\ [](\A user \in Users, id \in ParamIds :
            /\ GetOneResp(user, id, FALSE).code = 500
            /\ ListFailedResp.code = 500)
    /\ [][\A d \in DeleteIds :
            (del'[d] # del[d] /\ del'[d].resp = DeleteFailedResp) =>
                (del'[d].resp.code = 500 /\ rows' = rows)]_vars
    /\ [][\A h \in UploadIds :
            (up[h].pc = "create" /\ up'[h] # up[h] /\ nextId' = nextId) =>
                /\ up'[h].resp.code = 500
                /\ up'[h].resp.error = "Failed to upload audio"
                /\ rows' = rows]_vars

\* C26: no step of a delete handler changes the blob store, and no step at
\* all removes a blob: after a row is deleted the blob under its key is
\* still there.
C26_DeleteKeepsBlob ==
    [][/\ del' # del => blobs' = blobs
       /\ \A k \in DOMAIN blobs : k \in DOMAIN blobs'
       /\ \A id \in DOMAIN rows :
             id \notin DOMAIN rows' => rows[id].audioUrl \in DOMAIN blobs']_vars

C26_Witness ==
    /\ \E d \in DeleteIds : del[d].resp = DeletedResp
    /\ DOMAIN rows = {}
    /\ DOMAIN blobs # {}

\* C29: an upload handler that has finished has sent one response, the
\* confirmation, the 400 or the 500.
C29_Original ==
    \A h \in UploadIds : Finished(h) => up[h].resp.code \in {200, 400, 500}

\* C30: a processor is started only in the step that creates its row and
\* sends the confirmation for it, once; a row for which the upload handler
\* awaits or has made its compensating update has no processor, and never
\* gets one.
C30_DispatchOnceAfterConfirm ==
    /\ [](\A h \in UploadIds, r \in RecIds :
            (up[h].pc = "compensate" /\ up[h].recordingId = r) => proc[r].pc = "none")
    /\ [][\A r \in RecIds :
            /\ proc[r].pc # "none" => proc'[r].pc # "none"
            /\ (proc[r].pc = "none" /\ proc'[r].pc # "none") =>
                  /\ proc'[r].pc = "markProcessing"
                  /\ r \notin DOMAIN rows /\ r \in DOMAIN rows'
                  /\ \E h \in UploadIds :
                        /\ up[h].pc = "create" /\ up'[h].pc = "done"
                        /\ up'[h].resp.code = 200
                        /\ up'[h].resp.items[1].id = r
            /\ (r \in DOMAIN rows /\ proc[r].pc = "none") => proc'[r].pc = "none"]_vars

C30_Witness ==
    \E r, q \in DOMAIN rows :
        /\ proc[r].pc = "none" /\ rows[r].status = "failed"
        /\ proc[q].pc = "markProcessing" /\ Confirmed(q)

\* C23: the list served to a user holds each row of that user once and no
\* other row, from the newest createdAt to the oldest, each with the id,
\* title, summary, audioUrl, duration and createdAt of its row and without
\* the transcription.
C23_ListOwnNewestFirst ==
    (lastRead.kind = "list" /\ lastRead.resp.code = 200) =>
        LET items == lastRead.resp.items
            own == {id \in DOMAIN rows : rows[id].userId = lastRead.user}
        IN  /\ {items[i].id : i \in DOMAIN items} = own
            /\ Len(items) = Cardinality(own)
            /\ \A i, j \in DOMAIN items :
                  i < j => items[i].createdAt >= items[j].createdAt
            /\ \A i \in DOMAIN items :
                  /\ DOMAIN items[i] =
                        {"id", "title", "summary", "audioUrl", "duration", "createdAt"}
                  /\ \A f \in DOMAIN items[i] : items[i][f] = rows[items[i].id][f]

C23_Witness ==
    /\ lastRead.kind = "list"
    /\ Len(lastRead.resp.items) = 2
    /\ lastRead.resp.items[1].createdAt > lastRead.resp.items[2].createdAt
    /\ lastRead.resp.items[1].id = 2

\* The title a transcription has: the characters from the first to the last
\* that is not white space, among those before the first '.', '!' or '?', at
\* most 100 of them; 'Untitled Recording' when there is none
IsTitleOf(title, text) ==
    LET ends == {i \in 1..Len(text) : text[i] \in {".", "!", "?"}} \cup {Len(text) + 1}
        first == CHOOSE i \in ends : \A j \in ends : i <= j
        inked == {i \in 1..(first - 1) : text[i] \notin {" ", "\n", "\t"}}
        from == CHOOSE i \in inked : \A j \in inked : i <= j
        to == CHOOSE i \in inked : \A j \in inked : i >= j
    IN  IF inked = {}
        THEN title = UntitledRecording
        ELSE /\ Len(title) = IF to - from + 1 > 100 THEN 100 ELSE to - from + 1
             /\ \A i \in 1..Len(title) : title[i] = text[from + i - 1]

\* C24: the title of a processed row is the first sentence of its
\* transcription, trimmed and cut to 100 characters, and 'Untitled Recording'
\* when that is empty; it is never empty and never longer than 100
\* characters, and for "Hello there. This is a test." it is "Hello there".
C24_TitleDerived ==
    \A id \in DOMAIN rows :
        rows[id].status = "processed" =>
            /\ IsTitleOf(rows[id].title, rows[id].transcription)
            /\ rows[id].title # <<>>
            /\ Len(rows[id].title) <= 100
            /\ rows[id].transcription = HelloText =>
                  rows[id].title = <<"H","e","l","l","o"," ","t","h","e","r","e">>
            /\ rows[id].transcription = <<>> => rows[id].title = UntitledRecording

C24_Witness ==
    \E id \in DOMAIN rows :
        /\ rows[id].status = "processed"
        /\ Len(rows[id].title) = 100
        /\ rows[id].title[100] = " "
        /\ Len(rows[id].transcription) > 100

\* C28: when every call of the background task returns, every recording
\* whose upload was answered with the success response ends up processed or
\* failed, unless its mark-as-failed update was itself rejected: a confirmed
\* row stays in uploaded or processing for good only in that case (or when a
\* call never returns).
C28_EventuallyTerminal ==
    \A r \in RecIds :
        Confirmed(r) ~> \/ (r \in DOMAIN rows /\ rows[r].status \in Terminal)
                        \/ (proc[r].pc = "done" /\ proc[r].rejected)

C28_Witness ==
    \E r, q \in DOMAIN rows :
        /\ Confirmed(r) /\ proc[r].pc = "done" /\ ~proc[r].rejected
        /\ proc[r].err # "" /\ rows[r].status = "failed"
        /\ Confirmed(q) /\ proc[q].pc = "done" /\ proc[q].rejected
        /\ rows[q].status \notin Terminal

\* The recordings of the device's list
LocalList == IF local = NullJson THEN <<>> ELSE Parse(local)

\* The recording of call f is in the device's list with its placeholder
\* summary and transcription
ListedPending(f) ==
    \E i \in 1..Len(LocalList) :
        /\ LocalList[i].id = stop[f].id
        /\ LocalList[i].summary = PendingSummary
        /\ LocalList[i].transcription = PendingTranscription

\* The request of call f has failed or was answered with a non-success body
RequestFailed(f) ==
    stop[f].pc = "done" /\ stop[f].outcome \in {"requestFailed", "nonSuccess"}

\* C27 as stated: a request is sent only after the local save has resolved;
\* after a failed save no request is sent; and when the request has failed
\* or brought a non-success body, the recording is in the local list with
\* its placeholder summary and transcription.
C27_Original ==
    \A f \in FlowIds :
        /\ stop[f].sent => stop[f].saved
        /\ stop[f].outcome = "saveFailed" => ~stop[f].sent
        /\ RequestFailed(f) => ListedPending(f)

\* What holds of C27: a request is sent only after the local save has
\* resolved, which wrote the recording with its placeholders at the head of
\* the list; after a failed save no request is sent; and the steps in which
\* a request fails or is answered without success write nothing.
C27_OwnSteps ==
    /\ [](\A f \in FlowIds :
            /\ stop[f].sent => stop[f].saved
            /\ stop[f].outcome = "saveFailed" => ~stop[f].sent)
    /\ [][\A f \in FlowIds :
            /\ (~stop[f].saved /\ stop'[f].saved) =>
                  (LocalList' # <<>> /\ LocalList'[1].id = stop[f].id /\ ListedPending(f)')
            /\ (~RequestFailed(f) /\ RequestFailed(f)') => local' = local]_vars

\* A request has failed after its recording was saved and stayed listed
C27_Listed ==
    \E f \in FlowIds : RequestFailed(f) /\ stop[f].saved /\ ListedPending(f)

\* The processor of r is awaiting a call
Running(r) ==
    proc[r].pc \in {"markProcessing", "signUrl", "fetch", "transcribe",
                    "summarize", "finalUpdate", "markFailed"}

\* The store has handed out id r and holds no row of it
Gone(r) == r < nextId /\ r \notin DOMAIN rows

\* C31: once the row of a recording is deleted while its processor runs, no
\* get or list returns it and no step brings it back; a step of the processor
\* changes no row, no handler and no blob, its update on the missing row is
\* rejected and caught, and the rejected mark-as-failed update is logged and
\* ends the task without rejecting it.
C31_DeletedWhileProcessing ==
    /\ [](\A r \in RecIds, user \in Users :
            (Gone(r) /\ proc[r].pc # "none") =>
                /\ GetOneResp(user, r, TRUE) = NotFoundResp
                /\ r \notin FindManyIds(user))
    /\ [][\A r \in RecIds :
            (Gone(r) /\ Running(r)) =>
                /\ r \notin DOMAIN rows'
                /\ proc'[r] # proc[r] =>
                      /\ rows' = rows /\ blobs' = blobs
                      /\ up' = up /\ del' = del
                      /\ proc[r].pc \in {"markProcessing", "finalUpdate"} =>
                            (proc'[r].pc = "markFailed" /\ proc'[r].err = proc[r].pc)
                      /\ proc[r].pc = "markFailed" =>
                            (proc'[r].pc = "done" /\ proc'[r].rejected)]_vars

C31_Witness ==
    \E r \in RecIds, d \in DeleteIds :
        /\ Gone(r)
        /\ del[d].pc = "done" /\ del[d].resp = DeletedResp
        /\ proc[r].pc = "done" /\ proc[r].err = "finalUpdate" /\ proc[r].rejected

\* Every storage call has completed, all reads having returned the stored
\* item
AllCompleted ==
    \A c \in CallIds : call[c].pc = "done" /\ call[c].readOk

Deleted(id) == \E d \in CallIds : call[d].op = "delete" /\ call[d].id = id

\* C32 as stated: once all calls have completed, every recording whose save
\* completed and that no call deleted is in the stored list, and carries the
\* updated fields when an update of it completed with its write.
C32_Original ==
    AllCompleted =>
        \A c \in CallIds :
            (call[c].outcome = "written" /\ ~Deleted(call[c].id)) =>
                /\ call[c].op = "save" =>
                      \E i \in 1..Len(LocalList) : LocalList[i].id = call[c].id
                /\ call[c].op = "update" =>
                      \E i \in 1..Len(LocalList) :
                          /\ LocalList[i].id = call[c].id
                          /\ LocalList[i].summary = SummaryText
                          /\ LocalList[i].transcription = HelloText

\* The handler of request q has ended
SyncEnded(q) == sync[q].pc \in {"done", "crashed"}

\* C33 as stated, for the requests that carry an audio part: no step creates
\* a row; a blob is written only by a request whose transcription and
\* summarization have succeeded; and a request whose handler has ended has no
\* temporary file left and has been sent one response, the success body or a
\* 500.  (A request without an audio part is answered 400.)
C33_Original ==
    /\ [][rows' = rows]_vars
    /\ [][blobs' # blobs =>
            \E q \in SyncIds :
                /\ sync'[q] # sync[q]
                /\ sync[q].text \in Texts /\ sync[q].summarized]_vars
    /\ [](\A q \in SyncIds :
            (SyncEnded(q) /\ sync[q].resp # NoFileResp) =>
                /\ ~sync[q].tempFile
                /\ sync[q].resp.code \in {200, 500})

\* Entry i of the list is the first with the id
FirstWithId(list, i, id) ==
    /\ i \in 1..Len(list)
    /\ list[i].id = id
    /\ \A j \in 1..(i - 1) : list[j].id # id

\* C34: a step of updateRecording(id, updates) that changes the stored list
\* keeps its length and every entry but the first of that id, to which it
\* gives the updated fields and no others; when no entry has the id, no step
\* of the call changes the stored item and the call returns without error.
C34_UpdateFirstMatchOnly ==
    [][\A c \in CallIds :
          (call[c].op = "update" /\ call'[c] # call[c]) =>
              /\ local' # local =>
                    /\ Len(LocalList') = Len(LocalList)
                    /\ \E i \in 1..Len(LocalList) :
                          /\ FirstWithId(LocalList, i, call[c].id)
                          /\ LocalList'[i] =
                                [LocalList[i] EXCEPT
                                    !.title = <<"H", "e", "l", "l", "o", " ",
                                                "t", "h", "e", "r", "e">>,
                                    !.summary = SummaryText,
                                    !.transcription = HelloText,
                                    !.audioUrl = FileName(0, ".m4a")]
                          /\ \A j \in 1..Len(LocalList) :
                                j # i => LocalList'[j] = LocalList[j]
              /\ (\A i \in 1..Len(LocalList) : LocalList[i].id # call[c].id) =>
                    /\ local' = local
                    /\ call'[c].pc = "done" => call'[c].outcome = "noEntry"]_vars

C34_Witness ==
    \E i, j \in 1..Len(LocalList) :
        /\ i < j
        /\ call[1].pc = "done" /\ call[1].outcome = "written"
        /\ LocalList[i].id = call[1].id /\ LocalList[j].id = call[1].id
        /\ LocalList[i].summary = SummaryText
        /\ LocalList[j].summary = PendingSummary

C34_NoEntry ==
    /\ call[1].pc = "done" /\ call[1].outcome = "noEntry" /\ call[1].readOk
    /\ Len(LocalList) = MaxListLen

\* title is what C35 says of generateTitle(text, maxLength), stated over
\* the positions of the characters of text
IsClientTitleOf(title, text, maxLength) ==
    LET blank == {" ", "\n", "\t"}
        ends == {i \in 1..Len(text) : text[i] \in {".", "!", "?"}} \cup {Len(text) + 1}
        first == CHOOSE i \in ends : \A j \in ends : i <= j
        inked == {i \in 1..(first - 1) : text[i] \notin blank}
        from == CHOOSE i \in inked : \A j \in inked : i <= j
        to == CHOOSE i \in inked : \A j \in inked : i >= j
        cut == IF Len(text) < maxLength THEN Len(text) ELSE maxLength
        kept == {i \in 1..cut : text[i] \notin blank}
        low == CHOOSE i \in kept : \A j \in kept : i <= j
        high == CHOOSE i \in kept : \A j \in kept : i >= j
    IN  IF \A i \in 1..Len(text) : text[i] \in blank
        THEN title = DatedTitle
        ELSE IF inked # {} /\ to - from + 1 <= maxLength
        THEN /\ Len(title) = to - from + 1
             /\ \A i \in 1..Len(title) : title[i] = text[from + i - 1]
        ELSE IF kept = {}
        THEN title = <<".", ".", ".">>
        ELSE /\ Len(title) = high - low + 4
             /\ \A i \in 1..(high - low + 1) : title[i] = text[low + i - 1]
             /\ \A i \in (high - low + 2)..(high - low + 4) : title[i] = "."

\* C35: the title a success body gives the local recording is generateTitle
\* of its transcription with maxLength 50; and for that transcription and
\* every maxLength, generateTitle is the trimmed first sentence when that has
\* 1 to maxLength characters, else the first maxLength characters trimmed and
\* followed by '...', and the dated label for a blank transcription; it is
\* never empty, and for a non-blank transcription never longer than
\* maxLength + 3.
C35_GenerateTitle ==
    \A i \in 1..Len(LocalList) :
        LocalList[i].transcription # PendingTranscription =>
            LET text == LocalList[i].transcription
            IN  /\ IsClientTitleOf(LocalList[i].title, text, 50)
                /\ \A m \in MaxLengths :
                      LET title == GenerateTitleMax(text, m)
                      IN  /\ IsClientTitleOf(title, text, m)
                          /\ title # <<>>
                          /\ (\E k \in 1..Len(text) : text[k] \notin {" ", "\n", "\t"})
                                => Len(title) <= m + 3

\* A transcription whose first sentence is longer than 50 characters has been
\* stored with its cut title
C35_Witness ==
    /\ stop[1].outcome = "updated"
    /\ LocalList[1].transcription = Repeat("a", 49) \o <<" ", "a", ".", "a">>
    /\ LocalList[1].title = Repeat("a", 49) \o <<".", ".", ".">>

\* C36 as stated: isAuthenticated is true exactly when token and user are
\* both non-null.
C36_Original ==
    auth.isAuthenticated <=> (auth.token # Null /\ auth.user # Null)

\* One direction holds: an authenticated store has a token and a user
C36_AuthenticatedHasToken ==
    auth.isAuthenticated => (auth.token # Null /\ auth.user # Null)

\* The step ends a login or signup call by a throw
FailedSignIn(a) ==
    /\ act[a].op \in {"login", "signup"}
    /\ act[a].pc # "done"
    /\ act'[a].pc = "done"
    /\ act'[a].outcome = "thrown"

\* C37: no step of a login or signup call but its successful last one
\* changes user, token or isAuthenticated; a call ends either signed in or
\* by rethrowing, and the step in which it rethrows sets isLoading to false.
C37_FailedSignInKeepsSession ==
    [][\A a \in ActIds :
          (act[a].op \in {"login", "signup"} /\ act'[a] # act[a]) =>
              /\ act'[a].pc = "done" => act'[a].outcome \in {"resolved", "thrown"}
              /\ ~(act'[a].pc = "done" /\ act'[a].outcome = "resolved") =>
                    /\ auth'.user = auth.user
                    /\ auth'.token = auth.token
                    /\ auth'.isAuthenticated = auth.isAuthenticated
              /\ FailedSignIn(a) => ~auth'.isLoading
              /\ (act'[a].pc = "done" /\ act'[a].outcome = "resolved") =>
                    auth' = SignedIn(UserOf(act[a].account), TokenOf(act[a].account))]_vars

\* Signed in to the first account, a login to the second has failed to
\* persist its user after its token was written
C37_Witness ==
    \E a \in ActIds :
        /\ act[a].pc = "done" /\ act[a].op = "login" /\ act[a].outcome = "thrown"
        /\ act[a].account = 2
        /\ auth = SignedIn(UserOf(1), TokenOf(1))
        /\ keys.token = TokenOf(2) /\ keys.user = UserOf(1)

\* The processing attempt of stop flow f, or of modal m, takes the step
StopStep(f) == stop'[f] # stop[f]
SendStep(m) == send'[m] # send[m]

\* C38: the step in which a processing attempt starts sets isProcessing of
\* its screen to true, and the step in which it ends, by whatever outcome,
\* sets it to false; an attempt writes the local list only in the write of
\* updateRecording, which it reaches only from the read of updateRecording,
\* which it reaches only with a response body whose success is true.
C38_ProcessingFlag ==
    [][/\ \A f \in FlowIds :
            /\ (~stop[f].sent /\ stop'[f].sent) => isProcessing'
            /\ (stop[f].sent /\ stop[f].pc # "done" /\ stop'[f].pc = "done") =>
                 ~isProcessing'
            /\ (stop[f].sent /\ StopStep(f) /\ local' # local) =>
                 stop[f].pc = "updateSet"
            /\ (StopStep(f) /\ stop'[f].pc = "updateSet") => stop[f].pc = "updateGet"
            /\ (StopStep(f) /\ stop'[f].pc = "updateGet") =>
                 (stop[f].pc = "json" /\ stop'[f].data.success)
       /\ \A m \in SendIds :
            /\ (send[m].pc = "idle" /\ send'[m].pc # "done" /\ SendStep(m)) =>
                 send'[m].isProcessing
            /\ (send[m].pc \notin {"idle", "done"} /\ send'[m].pc = "done") =>
                 ~send'[m].isProcessing
            /\ (SendStep(m) /\ local' # local) => send[m].pc = "updateSet"
            /\ (SendStep(m) /\ send'[m].pc = "updateSet") => send[m].pc = "updateGet"
            /\ (SendStep(m) /\ send'[m].pc = "updateGet") =>
                 (send[m].pc = "json" /\ send'[m].data.success)]_vars

\* One attempt of the record screen has updated its recording, another has
\* got a non-success body, and an attempt of the modal has failed at its
\* request; both flags are false again
C38_Witness ==
    /\ \E f, g \in FlowIds :
          /\ stop[f].pc = "done" /\ stop[f].outcome = "updated"
          /\ stop[g].pc = "done" /\ stop[g].outcome = "nonSuccess"
    /\ \E m \in SendIds :
          /\ send[m].pc = "done" /\ send[m].outcome = "requestFailed"
          /\ ~send[m].isProcessing
    /\ ~isProcessing

====
